---- MODULE Spec2Model ----
(***************************************************************************)
(* Functional-dependency discovery of                                      *)
(* phase2_document_model/code/discover_functional_dependencies.py.         *)
(*                                                                         *)
(* The state is one SQLite table (its PRAGMA table_info rows and its data  *)
(* as the DataFrame read_sql_query returns it), the arguments and outcome  *)
(* of one call of check_functional_dependency, and the outcome of one call *)
(* of analyze_table_fds.  A DataFrame is a sequence of rows, a row is a    *)
(* function from column name to value, and the SQL NULL / pandas NaN is    *)
(* the value NULL.                                                         *)
(*                                                                         *)
(* Spec takes each call as one step.  SpecPartitions follows the loop of   *)
(* one call group by group, SpecAnyOrder the checks of one analysis check  *)
(* by check, and SpecRows a call and the table with one row less.          *)
(***************************************************************************)
EXTENDS Integers, Sequences, FiniteSets, TLC

VARIABLES
    table_name,     \* the table of the database that is analysed
    columns_info,   \* its PRAGMA table_info rows: (name, position in the key)
    df,             \* its rows, as the DataFrame read_sql_query returns
    pc,             \* "start", then "checked", "analyzed", or a step on the way
    det_arg,        \* determinant_cols of the check_functional_dependency call
    dep_arg,        \* dependent_cols of the check_functional_dependency call
    result,         \* what that call returned or raised
    report,         \* what analyze_table_fds returned
    message,        \* the warning or error analyze_table_fds printed
    raised,         \* the exception that left analyze_table_fds, "" if none
    grouped,        \* the groups of the running call's groupby
    visited,        \* the positions in grouped the loop has processed
    tally,          \* violations, total_groups, violation_examples so far
    pending,        \* the checks of the table's analysis not yet evaluated
    outcome,        \* what each evaluated check of the analysis returned
    rendered,       \* the table sections that generate_report wrote
    \* data_cleaner.py
    cleaner_args,   \* args.sample (0 when absent) and args.batch_size
    source,         \* the rows of Users, Subreddit, Post, Comment, Moderation
    selected,       \* the rows that this run's SELECT of each table gave
    cleaned,        \* the committed rows of each *_cleaned table, None if absent
    txn,            \* the rows inserted in the open transaction
    cleaner_pc,     \* "idle", "table", "stream", "done" or "failed"
    cfg_index,      \* the position in TABLE_CONFIG of the table being cleaned
    offset,         \* the rows of that table the server-side cursor has given
    stats,          \* the Counter of the table being cleaned
    call,           \* the last call of a row cleaner: its stats before, its return
    runs,           \* the runs of main that have ended
    cleaner_raised, \* the exception that left main, "" if none
    \* load_to_mongo.py
    mongo_args,     \* args.chunksize and args.embed_cap
    data,           \* the rows of May2015 in the SQLite file
    db,             \* the collections users, subreddits, posts, comments, moderation
    loader_pc,      \* "idle", "loading" or "done"
    position,       \* the rows that stream_sqlite has given
    loads,          \* the loads that have ended
    db_first        \* the collections as the first load left them

fd_vars == <<table_name, columns_info, df, pc, det_arg, dep_arg, result, report,
            message, raised, grouped, visited, tally, pending, outcome, rendered>>

cleaner_vars == <<cleaner_args, source, selected, cleaned, txn, cleaner_pc, cfg_index,
                  offset, stats, call, runs, cleaner_raised>>

mongo_vars == <<mongo_args, data, db, loader_pc, position, loads, db_first>>

vars == <<fd_vars, cleaner_vars, mongo_vars>>

(***************************************************************************)
(* Bounds of the model.                                                    *)
(***************************************************************************)
\* Longest table of the family of arbitrary small tables.
MaxRows == 2
\* Number of determinant values (partitions) of the family of grouped tables.
NKeys == 4
\* Number of partitions of the grouped tables from which a row is removed.
RemovalKeys == 2
\* Largest score, ups and downs of the comment rows given to the cleaner.
MaxScore == 1
\* Largest number of rows of a source table of the cleaner.
MaxSourceRows == 2
\* Number of runs of the cleaner's main.
MaxRuns == 2
\* Largest number of rows of May2015 that the Mongo loader reads.
MaxDataRows == 3
\* Number of loads of the Mongo loader.
MaxLoads == 2
\* Number of rows that the row cleaners process with one stats counter.
MaxCalls == 2

\* SQL NULL, read by pandas as None/NaN; every other value is a positive number.
NULL == 0
\* Python's None, returned by analyze_table_fds for a table it gives up on: a
\* value that differs from every dict.
None == [none |-> TRUE]

\* Cell values of the small tables: id and link_id are nullable, author is not.
Values == {NULL, 1, 2}
AuthorValues == {1, 2}

(***************************************************************************)
(* Sequence helpers.                                                       *)
(***************************************************************************)
Range(s) == {s[i] : i \in 1..Len(s)}

\* x in list
In(x, s) == \E i \in 1..Len(s) : s[i] = x

\* Lexicographic order of two tuples of the same length (order of group keys).
TupleLess(a, b) ==
    \E i \in 1..Len(a) :
        /\ a[i] < b[i]
        /\ \A j \in 1..(i - 1) : a[j] = b[j]

RECURSIVE SortTuples(_)
SortTuples(S) ==
    IF S = {} THEN <<>>
    ELSE LET m == CHOOSE x \in S : \A y \in S \ {x} : TupleLess(x, y)
         IN  <<m>> \o SortTuples(S \ {m})

(***************************************************************************)
(* pandas operations used by the checker.  A DataFrame is a record of its  *)
(* column names and its rows; a row maps every column name to a value.     *)
(***************************************************************************)
DataFrame(cols, rows) == [columns |-> cols, rows |-> rows]

\* len(df)
len(d) == Len(d.rows)

\* Mutation of empty: only a frame without columns counts as empty.
empty_without_columns(d) == Len(d.columns) = 0

\* df.empty : no rows, or no columns
empty(d) == Len(d.rows) = 0 \/ Len(d.columns) = 0

\* Mutation of dropna: how='all', a row goes only when all of cols are null.
dropna_all(d, subset) ==
    DataFrame(d.columns,
              SelectSeq(d.rows,
                        LAMBDA r : \E i \in 1..Len(subset) : r[subset[i]] # NULL))

\* df.dropna(subset=cols): the rows in which any of cols is null are removed.
dropna(d, subset) ==
    DataFrame(d.columns,
              SelectSeq(d.rows,
                        LAMBDA r : \A i \in 1..Len(subset) : r[subset[i]] # NULL))

\* df[col] : one column of a frame, as a series
Series(d, col) == [i \in 1..Len(d.rows) |-> d.rows[i][col]]

\* series.dropna()
series_dropna(s) == SelectSeq(s, LAMBDA v : v # NULL)

\* series.nunique() : the number of distinct non-null values
\* Mutation of nunique: a null counts as a value of its own.
nunique_with_nulls(s) == Cardinality(Range(s))

nunique(s) == Cardinality(Range(series_dropna(s)))

\* series.unique() : the distinct values in order of first appearance
RECURSIVE unique(_)
unique(s) ==
    IF s = <<>> THEN <<>>
    ELSE LET init == unique(SubSeq(s, 1, Len(s) - 1))
             last == s[Len(s)]
         IN  IF In(last, init) THEN init ELSE Append(init, last)

\* s[:n]
Slice(s, n) == IF Len(s) <= n THEN s ELSE SubSeq(s, 1, n)

\* The tuple of determinant values of a row.
KeyOf(r, cols) == [i \in 1..Len(cols) |-> r[cols[i]]]

\* Mutation of groupby: one group per row, equal keys are not merged.
groupby_each_row(d, cols) ==
    LET keyed == SelectSeq(d.rows,
                           LAMBDA r : \A i \in 1..Len(cols) : r[cols[i]] # NULL)
    IN  [k \in 1..Len(keyed) |->
            [name  |-> KeyOf(keyed[k], cols),
             group |-> DataFrame(d.columns, <<keyed[k]>>)]]

\* df.groupby(cols): (name, group) pairs in ascending order of the key; every
\* group keeps its rows in table order.  Rows with a null key form no group
\* (groupby's default dropna=True).
groupby(d, cols) ==
    LET keyed == SelectSeq(d.rows,
                           LAMBDA r : \A i \in 1..Len(cols) : r[cols[i]] # NULL)
        keys  == SortTuples({KeyOf(keyed[i], cols) : i \in 1..Len(keyed)})
    IN  [k \in 1..Len(keys) |->
            [name  |-> keys[k],
             group |-> DataFrame(d.columns,
                                 SelectSeq(keyed,
                                           LAMBDA r : KeyOf(r, cols) = keys[k]))]]

(***************************************************************************)
(* check_functional_dependency                                             *)
(***************************************************************************)
\* What a call does: it returns a value or raises an exception.
Return(v) == [exc |-> "", ret |-> v]
Raise(e) == [exc |-> e, ret |-> None]

\* The returned tuple (holds, violation_count, total_groups, violation_examples).
FDResult(h, v, g, ex) ==
    [holds |-> h, violations |-> v, total_groups |-> g, violation_examples |-> ex]

\* Number of violation examples kept (len(violation_examples) < 3).
MaxExamples == 3
\* Number of dependent values listed in one example (unique()[:3]).
MaxExampleValues == 3

\* det_val: the value itself for one determinant column, else a mapping from
\* determinant column to value (a sequence of <<column, value>> pairs).
determinant_value(det, name) ==
    IF Len(det) = 1 THEN name[1]
    ELSE [i \in 1..Len(det) |-> <<det[i], name[i]>>]

violation_example(det, name, group, dep_col) ==
    [determinant_value |-> determinant_value(det, name),
     dependent_column  |-> dep_col,
     dependent_values  |->
         Slice(unique(series_dropna(Series(group, dep_col))), MaxExampleValues)]

\* Mutation of keep_example: every example is kept.
keep_every_example(examples, ex) == Append(examples, ex)

\* if len(violation_examples) < 3: violation_examples.append(...)
keep_example(examples, ex) ==
    IF Len(examples) < MaxExamples THEN Append(examples, ex) ELSE examples

\* The loop over dependent_cols for one group, from position j on.  acc is
\* (violations, total_groups, violation_examples).  The loop ends at the
\* first dependent column that violates (the break of the source).
\* Mutation of dependent_loop: any count of distinct values other than one
\* is a violation.
RECURSIVE dependent_loop_not_one(_, _, _, _, _, _)
dependent_loop_not_one(det, dep, name, group, j, acc) ==
    IF j > Len(dep) THEN acc
    ELSE LET dep_col == dep[j]
         IN  IF /\ In(dep_col, group.columns)
                /\ nunique(Series(group, dep_col)) # 1
             THEN [acc EXCEPT
                      !.violations = acc.violations + 1,
                      !.violation_examples =
                          keep_example(acc.violation_examples,
                                       violation_example(det, name, group, dep_col))]
             ELSE dependent_loop_not_one(det, dep, name, group, j + 1, acc)

\* Mutation of dependent_loop: no break, every violating dependent column of
\* the group is counted.
RECURSIVE dependent_loop_every_column(_, _, _, _, _, _)
dependent_loop_every_column(det, dep, name, group, j, acc) ==
    IF j > Len(dep) THEN acc
    ELSE LET dep_col == dep[j]
         IN  dependent_loop_every_column(det, dep, name, group, j + 1,
                 IF /\ In(dep_col, group.columns)
                    /\ nunique(Series(group, dep_col)) > 1
                 THEN [acc EXCEPT
                          !.violations = acc.violations + 1,
                          !.violation_examples =
                              keep_example(acc.violation_examples,
                                  violation_example(det, name, group, dep_col))]
                 ELSE acc)

RECURSIVE dependent_loop(_, _, _, _, _, _)
dependent_loop(det, dep, name, group, j, acc) ==
    IF j > Len(dep) THEN acc
    ELSE LET dep_col == dep[j]
         IN  IF /\ In(dep_col, group.columns)
                /\ nunique(Series(group, dep_col)) > 1
             THEN [acc EXCEPT
                      !.violations = acc.violations + 1,
                      !.violation_examples =
                          keep_example(acc.violation_examples,
                                       violation_example(det, name, group, dep_col))]
             ELSE dependent_loop(det, dep, name, group, j + 1, acc)

\* Mutation of group_step: after a violation no further group is counted.
group_step_until_violation(det, dep, g, sofar) ==
    IF sofar.violations > 0 THEN sofar
    ELSE [dependent_loop(det, dep, g.name, g.group, 1, sofar)
             EXCEPT !.total_groups = sofar.total_groups + 1]

\* One iteration of the loop over the groups: total_groups += 1, then the
\* dependent columns of the group.
group_step(det, dep, g, sofar) ==
    [dependent_loop(det, dep, g.name, g.group, 1, sofar)
        EXCEPT !.total_groups = sofar.total_groups + 1]

\* violations = 0, violation_examples = [], total_groups = 0
NoGroups == [violations |-> 0, total_groups |-> 0, violation_examples |-> <<>>]

\* The loop over the groups, from group k on.
RECURSIVE group_loop(_, _, _, _, _)
group_loop(det, dep, groups, k, sofar) ==
    IF k > Len(groups) THEN sofar
    ELSE group_loop(det, dep, groups, k + 1,
                    group_step(det, dep, groups[k], sofar))

\* Mutation of holds_of: one violation is tolerated.
holds_of_at_most_one(violations) == violations <= 1

\* holds = violations == 0
holds_of(violations) == violations = 0

\* Mutation of table_after_check: the null-determinant rows are dropped from
\* the caller's frame itself.
table_dropped_in_place(d, det) ==
    IF \A c \in Range(det) : In(c, d.columns) THEN dropna(d, det) ELSE d

\* The caller's DataFrame after the call: df.dropna(subset=...) returns a new
\* frame (df_clean), and groupby and nunique only read.
table_after_check(d, det) == d

check_functional_dependency(d, det, dep) ==
    IF empty(d) THEN Return(FDResult(FALSE, 0, 0, <<>>))
    ELSE IF \E i \in 1..Len(det) : ~In(det[i], d.columns)
         THEN Raise("KeyError")     \* dropna(subset=...) of a missing column
    ELSE LET df_clean == dropna(d, det)
         IN  IF empty(df_clean) THEN Return(FDResult(FALSE, 0, 0, <<>>))
             ELSE IF Len(det) = 0
                  THEN Raise("ValueError")   \* groupby([]): no group keys
             ELSE LET end == group_loop(det, dep, groupby(df_clean, det), 1,
                                        NoGroups)
                  IN  Return(FDResult(holds_of(end.violations), end.violations,
                                      end.total_groups, end.violation_examples))

(***************************************************************************)
(* get_domain_based_fds                                                    *)
(***************************************************************************)
all_fds ==
    << <<(<<"subreddit_id">>), (<<"subreddit">>),
         "Subreddit ID determines subreddit name">>,
       <<(<<"id">>), (<<"subreddit_id">>),
         "Comment/Post ID determines subreddit ID">>,
       <<(<<"link_id">>), (<<"subreddit_id">>),
         "Post link ID determines subreddit ID">>,
       <<(<<"link_id">>), (<<"author">>),
         "Post link ID determines author">>,
       <<(<<"id">>), (<<"author">>),
         "Comment/Post ID determines author">>,
       <<(<<"author">>), (<<"author_flair_text">>),
         "Author determines flair text">>,
       <<(<<"author">>), (<<"author_flair_css_class">>),
         "Author determines flair CSS class">>,
       <<(<<"link_id">>), (<<"created_utc">>),
         "Post link ID determines creation timestamp">>,
       <<(<<"id">>), (<<"link_id">>),
         "Comment ID determines parent post link ID">> >>

\* The domain dependencies whose columns all exist, in the order of all_fds.
get_domain_based_fds(columns) ==
    LET applies(fd) == \A c \in Range(fd[1] \o fd[2]) : In(c, columns)
        kept == SelectSeq(all_fds, applies)
    IN  [i \in 1..Len(kept) |->
            [determinant |-> kept[i][1], dependent |-> kept[i][2],
             description |-> kept[i][3]]]

(***************************************************************************)
(* analyze_table_fds                                                       *)
(***************************************************************************)
\* columns = [col[1] for col in columns_info]
column_names(info) == [i \in 1..Len(info) |-> info[i].name]

\* pk_columns = [col[1] for col in columns_info if col[5] == 1]
pk_columns_of(info) ==
    column_names(SelectSeq(info, LAMBDA col : col.pk = 1))

\* 1. the record of the primary-key dependency: added only when the check holds
primary_key_record(r, pk_columns, other_cols) ==
    IF r.holds
    THEN << [determinant |-> pk_columns, dependent |-> other_cols,
             type |-> "Primary Key", holds |-> TRUE, violations |-> 0,
             confidence |-> "High"] >>
    ELSE <<>>

\* other_cols = [col for col in columns if col not in pk_columns]
other_cols_of(columns, pk_columns) ==
    SelectSeq(columns, LAMBDA col : ~In(col, pk_columns))

primary_key_fds(d, columns, pk_columns) ==
    LET other_cols == other_cols_of(columns, pk_columns)
    IN  IF pk_columns # <<>> /\ other_cols # <<>>
        THEN primary_key_record(
                 check_functional_dependency(d, pk_columns, other_cols).ret,
                 pk_columns, other_cols)
        ELSE <<>>

\* Mutation of is_candidate_key: the ratio is taken over the non-null rows.
is_candidate_key_of_non_null(d, col) ==
    LET unique_count == nunique(Series(d, col))
        total_count  == Len(series_dropna(Series(d, col)))
    IN  total_count > 0 /\ unique_count = total_count /\ unique_count > 0

\* Mutation of is_candidate_key: any column with a value is a candidate key.
is_candidate_key_any_ratio(d, col) ==
    nunique(Series(d, col)) > 0

\* uniqueness_ratio == 1.0 and unique_count > 0
is_candidate_key(d, col) ==
    LET unique_count == nunique(Series(d, col))
        total_count  == len(d)
    IN  total_count > 0 /\ unique_count = total_count /\ unique_count > 0

\* 2. candidate_keys: the non-key columns that are 100% unique
candidate_keys_of(d, columns, pk_columns) ==
    SelectSeq(columns,
              LAMBDA col : ~In(col, pk_columns) /\ is_candidate_key(d, col))

\* if holds and groups > 0: dependent_cols.append(dep_col)
dependent_accepted(r) == r.holds /\ r.total_groups > 0

\* the record of one candidate key: none without dependents
candidate_key_record(det_col, dependent_cols) ==
    IF dependent_cols # <<>>
    THEN << [determinant |-> <<det_col>>, dependent |-> dependent_cols,
             type |-> "Candidate Key", holds |-> TRUE, violations |-> 0,
             confidence |-> "High"] >>
    ELSE <<>>

\* the dependents collected for one candidate key
candidate_dependents(d, columns, pk_columns, det_col) ==
    SelectSeq(columns,
              LAMBDA dep_col :
                  /\ dep_col # det_col
                  /\ ~In(dep_col, pk_columns)
                  /\ dependent_accepted(
                         check_functional_dependency(d, <<det_col>>,
                                                     <<dep_col>>).ret))

\* Mutation of candidate_key_fds: the records come out in reverse key order.
RECURSIVE candidate_key_fds_reversed(_, _, _, _)
candidate_key_fds_reversed(d, columns, pk_columns, keys) ==
    IF keys = <<>> THEN <<>>
    ELSE LET dependent_cols ==
                 candidate_dependents(d, columns, pk_columns, Head(keys))
             rest == candidate_key_fds_reversed(d, columns, pk_columns,
                                                Tail(keys))
         IN  IF dependent_cols # <<>>
             THEN rest \o << [determinant |-> <<Head(keys)>>,
                              dependent |-> dependent_cols,
                              type |-> "Candidate Key", holds |-> TRUE,
                              violations |-> 0, confidence |-> "High"] >>
             ELSE rest

RECURSIVE candidate_key_fds(_, _, _, _)
candidate_key_fds(d, columns, pk_columns, keys) ==
    IF keys = <<>> THEN <<>>
    ELSE candidate_key_record(
             Head(keys), candidate_dependents(d, columns, pk_columns, Head(keys)))
         \o candidate_key_fds(d, columns, pk_columns, Tail(keys))

\* Mutation of domain_fd_result: the examples are attached to every record.
domain_fd_result_with_examples(d, fd_spec) ==
    LET r == check_functional_dependency(d, fd_spec.determinant,
                                         fd_spec.dependent).ret
    IN  [determinant |-> fd_spec.determinant,
         dependent |-> fd_spec.dependent, type |-> "Domain-Based",
         holds |-> r.holds, violations |-> r.violations,
         total_groups |-> r.total_groups, confidence |-> "High",
         description |-> fd_spec.description,
         violation_examples |-> r.violation_examples]

\* 3. one record per applicable domain dependency, holding or failing
domain_fd_record(r, fd_spec) ==
    IF r.holds
    THEN [determinant |-> fd_spec.determinant,
          dependent |-> fd_spec.dependent, type |-> "Domain-Based",
          holds |-> r.holds, violations |-> r.violations,
          total_groups |-> r.total_groups, confidence |-> "High",
          description |-> fd_spec.description]
    ELSE [determinant |-> fd_spec.determinant,
          dependent |-> fd_spec.dependent, type |-> "Domain-Based",
          holds |-> r.holds, violations |-> r.violations,
          total_groups |-> r.total_groups, confidence |-> "High",
          description |-> fd_spec.description,
          violation_examples |-> r.violation_examples]

domain_fd_result(d, fd_spec) ==
    domain_fd_record(check_functional_dependency(d, fd_spec.determinant,
                                                 fd_spec.dependent).ret,
                     fd_spec)

\* Mutation of domain_fds_of: only the dependencies that hold are recorded.
domain_fds_of_holding(d, columns) ==
    LET domain_fds == get_domain_based_fds(columns)
        results == [i \in 1..Len(domain_fds) |->
                       domain_fd_result(d, domain_fds[i])]
    IN  SelectSeq(results, LAMBDA fd : fd.holds)

domain_fds_of(d, columns) ==
    LET domain_fds == get_domain_based_fds(columns)
    IN  [i \in 1..Len(domain_fds) |-> domain_fd_result(d, domain_fds[i])]

\* What analyze_table_fds returns and the warning or error it prints.  d is
\* the DataFrame that read_sql_query gives (after LIMIT, when sampling);
\* read_ok is false when read_sql_query raises.
analyze_table_fds(name, info, d, read_ok) ==
    IF info = <<>>
    THEN [exc |-> "", ret |-> None,
          message |-> "[WARNING] Table not found or empty"]
    ELSE IF ~read_ok     \* except Exception as e: print, return None
    THEN [exc |-> "", ret |-> None, message |-> "[ERROR] Error reading table"]
    ELSE IF empty(d)
    THEN [exc |-> "", ret |-> None, message |-> "[WARNING] Table is empty"]
    ELSE LET columns == column_names(info)
             pk_columns == pk_columns_of(info)
             discovered_fds ==
                 primary_key_fds(d, columns, pk_columns)
                 \o candidate_key_fds(d, columns, pk_columns,
                                      candidate_keys_of(d, columns, pk_columns))
                 \o domain_fds_of(d, columns)
         IN  [exc |-> "",
              ret |-> [table_name |-> name,
                       columns |-> columns,
                       row_count |-> len(d),
                       functional_dependencies |-> discovered_fds,
                       primary_key |->
                           IF pk_columns # <<>> THEN pk_columns ELSE None],
              message |-> ""]

(***************************************************************************)
(* generate_report                                                         *)
(***************************************************************************)
\* by_type: the dependency records grouped by type, the types in the order
\* of their first record.
RECURSIVE types_in_order(_, _)
types_in_order(fds, seen) ==
    IF fds = <<>> THEN <<>>
    ELSE IF In(Head(fds).type, seen) THEN types_in_order(Tail(fds), seen)
    ELSE <<Head(fds).type>>
         \o types_in_order(Tail(fds), Append(seen, Head(fds).type))

\* Number of violation examples that the report prints for a dependency.
ReportedExamples == 2

\* The lines written for one dependency: status, and for a failing one the
\* "N violations in M groups" line and the example lines.
report_entry(fd) ==
    [determinant |-> fd.determinant, dependent |-> fd.dependent,
     type |-> fd.type,
     status |-> IF fd.holds THEN "HOLDS" ELSE "FAILS",
     violations |->
         IF ~fd.holds
         THEN << IF "violations" \in DOMAIN fd THEN fd.violations ELSE 0,
                 IF "total_groups" \in DOMAIN fd THEN fd.total_groups ELSE 0 >>
         ELSE <<>>,
     examples |->
         IF ~fd.holds /\ "violation_examples" \in DOMAIN fd
         THEN Slice(fd.violation_examples, ReportedExamples) ELSE <<>>]

RECURSIVE entries_by_type(_, _)
entries_by_type(fds, types) ==
    IF types = <<>> THEN <<>>
    ELSE LET fd_list == SelectSeq(fds, LAMBDA fd : fd.type = Head(types))
         IN  [i \in 1..Len(fd_list) |-> report_entry(fd_list[i])]
             \o entries_by_type(fds, Tail(types))

\* The section of one table.
table_section(res) ==
    [table_name |-> res.table_name,
     entries |-> entries_by_type(res.functional_dependencies,
                                 types_in_order(res.functional_dependencies,
                                                <<>>))]

\* The table sections of the report, one per result that is not None.
generate_report(all_results) ==
    LET results == SelectSeq(all_results, LAMBDA r : r # None)
    IN  [i \in 1..Len(results) |-> table_section(results[i])]

(***************************************************************************)
(* The other two programs are not running.                                 *)
(***************************************************************************)
CleanerIdle ==
    /\ cleaner_args = <<>>
    /\ source = <<>>
    /\ selected = <<>>
    /\ cleaned = <<>>
    /\ txn = <<>>
    /\ cleaner_pc = "idle"
    /\ cfg_index = 0
    /\ offset = 0
    /\ stats = <<>>
    /\ call = <<>>
    /\ runs = 0
    /\ cleaner_raised = ""

MongoIdle ==
    /\ mongo_args = <<>>
    /\ data = <<>>
    /\ db = <<>>
    /\ loader_pc = "idle"
    /\ position = 0
    /\ loads = 0
    /\ db_first = <<>>

(***************************************************************************)
(* The tables of the model.                                                *)
(***************************************************************************)
\* Three tables over the same columns: the raw dump without a declared key,
\* one with the single-column key id, one with the composite key
\* (id, link_id).
Schemas ==
    { [name |-> "May2015",
       info |-> << [name |-> "id", pk |-> 0], [name |-> "link_id", pk |-> 0],
                   [name |-> "author", pk |-> 0] >>],
      [name |-> "Comment",
       info |-> << [name |-> "id", pk |-> 1], [name |-> "link_id", pk |-> 0],
                   [name |-> "author", pk |-> 0] >>],
      [name |-> "Post_Link",
       info |-> << [name |-> "id", pk |-> 1], [name |-> "link_id", pk |-> 2],
                   [name |-> "author", pk |-> 0] >>] }

Row(i, l, a) == [id |-> i, link_id |-> l, author |-> a]

SmallRows == {Row(i, l, a) : i \in Values, l \in Values, a \in AuthorValues}

\* Every sequence of at most MaxRows rows.
SmallTables == UNION {[1..n -> SmallRows] : n \in 0..MaxRows}

\* SQLite enforces the declared key: no two rows agree on all key columns
\* (rows with a NULL in the key never conflict).
declared_key(info) ==
    column_names(SelectSeq(info, LAMBDA col : col.pk > 0))

KeyEnforced(info, rows) ==
    LET key == declared_key(info)
    IN  key = <<>> \/
        \A i, j \in 1..Len(rows) :
            (/\ i # j
             /\ \A c \in Range(key) : rows[i][c] # NULL
             /\ KeyOf(rows[i], key) = KeyOf(rows[j], key)) => FALSE

\* The rows that one determinant value id = k contributes to a grouped table:
\* none, one, or several with agreeing or conflicting link_id and author.
GroupShapes(k) ==
    { <<>>,
      << Row(k, 1, 1) >>,
      << Row(k, 1, 1), Row(k, 2, 1) >>,
      << Row(k, 2, 1), Row(k, 1, 2) >>,
      << Row(k, 1, 2), Row(k, 1, 1), Row(k, 1, 2), Row(k, 1, 3), Row(k, 1, 4) >> }

\* Tables of the keys NKeys, ..., 1 (in that order), each with one shape.
RECURSIVE GroupedTables(_)
GroupedTables(n) ==
    IF n = 0 THEN {<<>>}
    ELSE {g \o t : g \in GroupShapes(n), t \in GroupedTables(n - 1)}

\* Arguments of the calls of check_functional_dependency.
DetChoices ==
    { <<>>, <<"id">>, <<"link_id">>, <<"id", "link_id">>, <<"subreddit_id">> }

DepChoices ==
    { <<"author">>, <<"link_id", "author">>, <<"author", "subreddit", "link_id">> }

NoResult == Return(None)

Init ==
    /\ \E s \in Schemas :
        /\ table_name = s.name
        /\ columns_info = s.info
        /\ \E rows \in SmallTables \cup
                       (IF s.name = "May2015" THEN GroupedTables(NKeys) ELSE {}) :
            /\ KeyEnforced(s.info, rows)
            /\ df = DataFrame(column_names(s.info), rows)
    /\ pc = "start"
    /\ det_arg = <<>>
    /\ dep_arg = <<>>
    /\ result = NoResult
    /\ report = None
    /\ message = ""
    /\ raised = ""
    /\ grouped = <<>>
    /\ visited = {}
    /\ tally = NoGroups
    /\ pending = {}
    /\ outcome = <<>>
    /\ rendered = <<>>
    /\ CleanerIdle
    /\ MongoIdle

\* A direct call check_functional_dependency(df, det, dep).
CheckFD(det, dep) ==
    /\ pc = "start"
    /\ pc' = "checked"
    /\ det_arg' = det
    /\ dep_arg' = dep
    /\ result' = check_functional_dependency(df, det, dep)
    /\ df' = table_after_check(df, det)
    /\ UNCHANGED <<rendered, cleaner_vars, mongo_vars>>
    /\ UNCHANGED <<table_name, columns_info, report, message, raised>>
    /\ UNCHANGED <<grouped, visited, tally, pending, outcome>>

\* The call analyze_table_fds(conn, table_name) that main makes for a table.
AnalyzeTable(read_ok) ==
    /\ pc = "start"
    /\ pc' = "analyzed"
    /\ LET r == analyze_table_fds(table_name, columns_info, df, read_ok)
       IN  /\ report' = r.ret
           /\ message' = r.message
           /\ raised' = r.exc
    /\ UNCHANGED <<rendered, cleaner_vars, mongo_vars>>
    /\ UNCHANGED <<table_name, columns_info, df, det_arg, dep_arg, result>>
    /\ UNCHANGED <<grouped, visited, tally, pending, outcome>>

\* main after its loop over the tables: all_results holds the results that
\* are not None, and generate_report writes the report.
GenerateReport ==
    /\ pc = "analyzed"
    /\ pc' = "reported"
    /\ rendered' = generate_report(IF report # None THEN <<report>> ELSE <<>>)
    /\ UNCHANGED <<cleaner_vars, mongo_vars>>
    /\ UNCHANGED <<table_name, columns_info, df, det_arg, dep_arg, result,
                   report, message, raised, grouped, visited, tally, pending,
                   outcome>>

Next ==
    \/ \E det \in DetChoices, dep \in DepChoices : CheckFD(det, dep)
    \/ \E read_ok \in BOOLEAN : AnalyzeTable(read_ok)
    \/ GenerateReport

Spec == Init /\ [][Next]_vars

(***************************************************************************)
(* The loop of check_functional_dependency over its groups, one group per  *)
(* step and the groups in any order.                                       *)
(***************************************************************************)
\* The determinants and dependents of the calls that are followed group by
\* group.
LoopDetChoices == {<<"id">>, <<"link_id">>}

InitPartitions ==
    /\ table_name = "May2015"
    /\ \E s \in Schemas : s.name = table_name /\ columns_info = s.info
    /\ \E rows \in GroupedTables(NKeys) :
           df = DataFrame(column_names(columns_info), rows)
    /\ pc = "start"
    /\ det_arg = <<>>
    /\ dep_arg = <<>>
    /\ result = NoResult
    /\ report = None
    /\ message = ""
    /\ raised = ""
    /\ grouped = <<>>
    /\ visited = {}
    /\ tally = NoGroups
    /\ pending = {}
    /\ outcome = <<>>
    /\ rendered = <<>>
    /\ CleanerIdle
    /\ MongoIdle

\* The call passes the empty-table returns and groups the rows.
EnterLoop(det, dep) ==
    /\ pc = "start"
    /\ ~empty(df)
    /\ ~empty(dropna(df, det))
    /\ pc' = "grouped"
    /\ det_arg' = det
    /\ dep_arg' = dep
    /\ grouped' = groupby(dropna(df, det), det)
    /\ visited' = {}
    /\ tally' = NoGroups
    /\ UNCHANGED <<rendered, cleaner_vars, mongo_vars>>
    /\ UNCHANGED <<table_name, columns_info, df, result, report, message, raised,
                   pending, outcome>>

\* The loop body for the group at position k, whichever is taken next.
ProcessGroup(k) ==
    /\ pc = "grouped"
    /\ k \in (1..Len(grouped)) \ visited
    /\ tally' = group_step(det_arg, dep_arg, grouped[k], tally)
    /\ visited' = visited \cup {k}
    /\ UNCHANGED <<rendered, cleaner_vars, mongo_vars>>
    /\ UNCHANGED <<table_name, columns_info, df, pc, det_arg, dep_arg, result,
                   report, message, raised, grouped, pending, outcome>>

\* holds = violations == 0; return holds, violations, total_groups, examples
ReturnFromLoop ==
    /\ pc = "grouped"
    /\ visited = 1..Len(grouped)
    /\ pc' = "checked"
    /\ result' = Return(FDResult(holds_of(tally.violations), tally.violations,
                                 tally.total_groups, tally.violation_examples))
    /\ UNCHANGED <<rendered, cleaner_vars, mongo_vars>>
    /\ UNCHANGED <<table_name, columns_info, df, det_arg, dep_arg, report,
                   message, raised, grouped, visited, tally, pending, outcome>>

NextPartitions ==
    \/ \E det \in LoopDetChoices, dep \in DepChoices : EnterLoop(det, dep)
    \/ \E k \in 1..NKeys : ProcessGroup(k)
    \/ ReturnFromLoop

SpecPartitions == InitPartitions /\ [][NextPartitions]_vars

(***************************************************************************)
(* A call of check_functional_dependency, then the same table with one row *)
(* less.                                                                   *)
(***************************************************************************)
\* The table without its i-th row.
WithoutRow(d, i) ==
    DataFrame(d.columns,
              SubSeq(d.rows, 1, i - 1) \o SubSeq(d.rows, i + 1, len(d)))

InitRows ==
    /\ \E s \in Schemas :
        /\ table_name = s.name
        /\ columns_info = s.info
        /\ \E rows \in SmallTables \cup
                       (IF s.name = "May2015" THEN GroupedTables(RemovalKeys)
                        ELSE {}) :
            /\ KeyEnforced(s.info, rows)
            /\ df = DataFrame(column_names(s.info), rows)
    /\ pc = "start"
    /\ det_arg = <<>>
    /\ dep_arg = <<>>
    /\ result = NoResult
    /\ report = None
    /\ message = ""
    /\ raised = ""
    /\ grouped = <<>>
    /\ visited = {}
    /\ tally = NoGroups
    /\ pending = {}
    /\ outcome = <<>>
    /\ rendered = <<>>
    /\ CleanerIdle
    /\ MongoIdle

\* The i-th row is deleted from the table after the call.
RemoveRow(i) ==
    /\ pc = "checked"
    /\ pc' = "removed"
    /\ df' = WithoutRow(df, i)
    /\ UNCHANGED <<rendered, cleaner_vars, mongo_vars>>
    /\ UNCHANGED <<table_name, columns_info, det_arg, dep_arg, result, report,
                   message, raised, grouped, visited, tally, pending, outcome>>

NextRows ==
    \/ \E det \in DetChoices, dep \in DepChoices : CheckFD(det, dep)
    \/ \E i \in 1..len(df) : RemoveRow(i)

SpecRows == InitRows /\ [][NextRows]_vars

(***************************************************************************)
(* The checks of one table's analysis, evaluated one per step and in any   *)
(* order against the shared DataFrame; each writes its own outcome, and    *)
(* the records are put together when all are done.                         *)
(***************************************************************************)
Check(type, det, dep) == [type |-> type, determinant |-> det, dependent |-> dep]

\* The calls of check_functional_dependency that analyze_table_fds makes.
planned_checks(d, columns, pk_columns) ==
    LET other_cols == other_cols_of(columns, pk_columns)
        domain_fds == get_domain_based_fds(columns)
    IN  (IF pk_columns # <<>> /\ other_cols # <<>>
         THEN {Check("Primary Key", pk_columns, other_cols)} ELSE {})
        \cup ({Check("Candidate Key", <<det_col>>, <<dep_col>>) :
                  det_col \in Range(candidate_keys_of(d, columns, pk_columns)),
                  dep_col \in Range(other_cols)}
              \ {Check("Candidate Key", <<col>>, <<col>>) : col \in Range(columns)})
        \cup {Check("Domain-Based", domain_fds[i].determinant,
                    domain_fds[i].dependent) : i \in 1..Len(domain_fds)}

\* The records of the candidate keys, from the outcomes of their checks.
RECURSIVE candidate_key_fds_from(_, _, _, _)
candidate_key_fds_from(checks, columns, pk_columns, keys) ==
    IF keys = <<>> THEN <<>>
    ELSE candidate_key_record(
             Head(keys),
             SelectSeq(columns,
                 LAMBDA dep_col :
                     /\ dep_col # Head(keys)
                     /\ ~In(dep_col, pk_columns)
                     /\ dependent_accepted(
                            checks[Check("Candidate Key", <<Head(keys)>>,
                                         <<dep_col>>)].ret)))
         \o candidate_key_fds_from(checks, columns, pk_columns, Tail(keys))

\* discovered_fds, from the outcomes of the checks.
discovered_fds_from(checks, d, columns, pk_columns) ==
    LET other_cols == other_cols_of(columns, pk_columns)
        domain_fds == get_domain_based_fds(columns)
    IN  (IF pk_columns # <<>> /\ other_cols # <<>>
         THEN primary_key_record(
                  checks[Check("Primary Key", pk_columns, other_cols)].ret,
                  pk_columns, other_cols)
         ELSE <<>>)
        \o candidate_key_fds_from(checks, columns, pk_columns,
                                  candidate_keys_of(d, columns, pk_columns))
        \o [i \in 1..Len(domain_fds) |->
               domain_fd_record(
                   checks[Check("Domain-Based", domain_fds[i].determinant,
                                domain_fds[i].dependent)].ret,
                   domain_fds[i])]

InitAnyOrder ==
    /\ \E s \in Schemas :
        /\ table_name = s.name
        /\ columns_info = s.info
        /\ \E rows \in SmallTables :
            /\ KeyEnforced(s.info, rows)
            /\ df = DataFrame(column_names(s.info), rows)
    /\ pc = "start"
    /\ det_arg = <<>>
    /\ dep_arg = <<>>
    /\ result = NoResult
    /\ report = None
    /\ message = ""
    /\ raised = ""
    /\ grouped = <<>>
    /\ visited = {}
    /\ tally = NoGroups
    /\ pending = {}
    /\ outcome = <<>>
    /\ rendered = <<>>
    /\ CleanerIdle
    /\ MongoIdle

\* The table is read and is not empty: its checks are to be evaluated.
StartChecks ==
    /\ pc = "start"
    /\ ~empty(df)
    /\ pc' = "checking"
    /\ pending' = planned_checks(df, column_names(columns_info),
                                 pk_columns_of(columns_info))
    /\ outcome' = [c \in pending' |-> NoResult]
    /\ UNCHANGED <<rendered, cleaner_vars, mongo_vars>>
    /\ UNCHANGED <<table_name, columns_info, df, det_arg, dep_arg, result,
                   report, message, raised, grouped, visited, tally>>

\* One pending check is evaluated on the table as it is now.
EvaluateCheck(c) ==
    /\ pc = "checking"
    /\ c \in pending
    /\ outcome' = [outcome EXCEPT ![c] =
                       check_functional_dependency(df, c.determinant,
                                                   c.dependent)]
    /\ df' = table_after_check(df, c.determinant)
    /\ pending' = pending \ {c}
    /\ UNCHANGED <<rendered, cleaner_vars, mongo_vars>>
    /\ UNCHANGED <<table_name, columns_info, pc, det_arg, dep_arg, result,
                   report, message, raised, grouped, visited, tally>>

\* All checks are done: the table's result is put together.
ReturnResult ==
    /\ pc = "checking"
    /\ pending = {}
    /\ pc' = "analyzed"
    /\ LET columns == column_names(columns_info)
           pk_columns == pk_columns_of(columns_info)
       IN  report' = [table_name |-> table_name,
                      columns |-> columns,
                      row_count |-> len(df),
                      functional_dependencies |->
                          discovered_fds_from(outcome, df, columns, pk_columns),
                      primary_key |->
                          IF pk_columns # <<>> THEN pk_columns ELSE None]
    /\ UNCHANGED <<rendered, cleaner_vars, mongo_vars>>
    /\ UNCHANGED <<table_name, columns_info, df, det_arg, dep_arg, result,
                   message, raised, grouped, visited, tally, pending, outcome>>

NextAnyOrder ==
    \/ StartChecks
    \/ \E c \in pending : EvaluateCheck(c)
    \/ ReturnResult

SpecAnyOrder == InitAnyOrder /\ [][NextAnyOrder]_vars

(***************************************************************************)
(* phase3_data_mining/code/data_cleaner.py: the row cleaners.              *)
(*                                                                         *)
(* A Python value is None, a string or an integer.  A string is the        *)
(* sequence of its pieces: the piece " " is a whitespace character, any    *)
(* other piece is a run of characters without whitespace.  A row is the    *)
(* tuple of its column values.                                             *)
(***************************************************************************)
Str(pieces) == [str |-> pieces]
PyInt(n) == [int |-> n]
Tuple(fields) == [tuple |-> fields]

\* Mutation of strip: nothing is removed.
strip_nothing(v) == v

\* str.strip(): leading and trailing whitespace removed
RECURSIVE lstrip(_)
lstrip(pieces) ==
    IF pieces # <<>> /\ Head(pieces) = " " THEN lstrip(Tail(pieces)) ELSE pieces

RECURSIVE rstrip(_)
rstrip(pieces) ==
    IF pieces # <<>> /\ pieces[Len(pieces)] = " "
    THEN rstrip(SubSeq(pieces, 1, Len(pieces) - 1)) ELSE pieces

strip(v) == Str(rstrip(lstrip(v.str)))

\* The counters that the cleaners and main keep in a Counter; a counter that
\* was never incremented reads 0.
CounterNames ==
    {"seen", "kept", "processed",
     "dropped_missing_author", "dropped_missing_subreddit_id",
     "dropped_invalid_created_utc", "dropped_missing_link_id",
     "dropped_missing_body", "dropped_deleted_or_removed",
     "dropped_missing_target_id",
     "flair_symbols_only_to_null", "edited_negative_to_null",
     "author_empty_to_null", "score_fixed_from_ups_downs"}

Counter == [n \in CounterNames |-> 0]

inc(st, name) == [st EXCEPT ![name] = @ + 1]

\* What a cleaner returns, and the Counter as it leaves it.
Cleaned(row, st) == [ret |-> row, stats |-> st]

\* x is None or x.strip() == ""
missing(x) == x = None \/ strip(x) = Str(<<>>)

MinCreatedUtc == 1100000000
MaxCreatedUtc == 1800000000

\* created_utc is not None and outside [1100000000, 1800000000]
invalid_created_utc(created_utc) ==
    /\ created_utc # None
    /\ (created_utc.int < MinCreatedUtc \/ created_utc.int > MaxCreatedUtc)

\* The characters of which a flair of symbols only consists (the backquote is
\* left out: it cannot be written in a string here).
SymbolPieces ==
    {"!", "@", "#", "$", "%", "^", "&", "*", "(", ")", "[", "]", "{", "}",
     "<", ">", "?", "/", "\\", "|", "~"}

clean_user_row(row, st) ==
    LET seen == inc(st, "seen")
        author == row.tuple[1]
        flair_text == row.tuple[2]
        flair_css == row.tuple[3]
    IN  IF missing(author)
        THEN Cleaned(None, inc(seen, "dropped_missing_author"))
        ELSE IF /\ flair_text # None
                /\ flair_text # Str(<<>>)
                /\ \A c \in Range(strip(flair_text).str) : c \in SymbolPieces
        THEN Cleaned(Tuple(<<author, None, flair_css>>),
                     inc(inc(seen, "flair_symbols_only_to_null"), "kept"))
        ELSE Cleaned(Tuple(<<author, flair_text, flair_css>>), inc(seen, "kept"))

\* Mutation of clean_subreddit_row: a kept row is not counted.
clean_subreddit_row_uncounted(row, st) ==
    LET seen == inc(st, "seen")
    IN  IF missing(row.tuple[1])
        THEN Cleaned(None, inc(seen, "dropped_missing_subreddit_id"))
        ELSE Cleaned(row, seen)

clean_subreddit_row(row, st) ==
    LET seen == inc(st, "seen")
        subreddit_id == row.tuple[1]
        subreddit == row.tuple[2]
    IN  IF missing(subreddit_id)
        THEN Cleaned(None, inc(seen, "dropped_missing_subreddit_id"))
        ELSE Cleaned(Tuple(<<subreddit_id, subreddit>>), inc(seen, "kept"))

clean_post_row(row, st) ==
    LET seen == inc(st, "seen")
        subreddit_id == row.tuple[2]
        created_utc == row.tuple[4]
        edited == row.tuple[7]
    IN  IF missing(subreddit_id)
        THEN Cleaned(None, inc(seen, "dropped_missing_subreddit_id"))
        ELSE IF invalid_created_utc(created_utc)
        THEN Cleaned(None, inc(seen, "dropped_invalid_created_utc"))
        ELSE IF edited # None /\ edited.int < 0
        THEN Cleaned(Tuple([row.tuple EXCEPT ![7] = None]),
                     inc(inc(seen, "edited_negative_to_null"), "kept"))
        ELSE Cleaned(row, inc(seen, "kept"))

clean_comment_row(row, st) ==
    LET seen == inc(st, "seen")
        body == row.tuple[2]
        author == row.tuple[3]
        link_id == row.tuple[4]
        created_utc == row.tuple[6]
        score == row.tuple[8]
        ups == row.tuple[9]
        downs == row.tuple[10]
        author_empty == author # None /\ strip(author) = Str(<<>>)
        authored == IF author_empty THEN inc(seen, "author_empty_to_null")
                    ELSE seen
        row_authored == IF author_empty THEN [row.tuple EXCEPT ![3] = None]
                        ELSE row.tuple
    IN  IF missing(link_id)
        THEN Cleaned(None, inc(seen, "dropped_missing_link_id"))
        ELSE IF missing(body)
        THEN Cleaned(None, inc(authored, "dropped_missing_body"))
        ELSE IF body \in {Str(<<"[deleted]">>), Str(<<"[removed]">>)}
        THEN Cleaned(None, inc(authored, "dropped_deleted_or_removed"))
        ELSE IF invalid_created_utc(created_utc)
        THEN Cleaned(None, inc(authored, "dropped_invalid_created_utc"))
        ELSE IF /\ score # None /\ ups # None /\ downs # None
                /\ score.int # ups.int - downs.int
        THEN Cleaned(Tuple([row_authored EXCEPT ![8] = PyInt(ups.int - downs.int)]),
                     inc(inc(authored, "score_fixed_from_ups_downs"), "kept"))
        ELSE Cleaned(Tuple(row_authored), inc(authored, "kept"))

clean_moderation_row(row, st) ==
    LET seen == inc(st, "seen")
        target_id == row.tuple[3]
        subreddit_id == row.tuple[4]
    IN  IF missing(target_id)
        THEN Cleaned(None, inc(seen, "dropped_missing_target_id"))
        ELSE IF missing(subreddit_id)
        THEN Cleaned(None, inc(seen, "dropped_missing_subreddit_id"))
        ELSE Cleaned(row, inc(seen, "kept"))

\* cfg["cleaner"] of the table's entry in TABLE_CONFIG
cleaner(name, row, st) ==
    CASE name = "Users" -> clean_user_row(row, st)
      [] name = "Subreddit" -> clean_subreddit_row(row, st)
      [] name = "Post" -> clean_post_row(row, st)
      [] name = "Comment" -> clean_comment_row(row, st)
      [] name = "Moderation" -> clean_moderation_row(row, st)

TableNames == <<"Users", "Subreddit", "Post", "Comment", "Moderation">>

(***************************************************************************)
(* The rows given to the cleaners.                                         *)
(***************************************************************************)
Blank == Str(<<" ">>)
Empty == Str(<<>>)
Word(w) == Str(<<w>>)

IdChoices == {None, Empty, Blank, Word("t3")}
AuthorChoices == {None, Empty, Blank, Word("bob")}
BodyChoices == {None, Empty, Blank, Word("[deleted]"), Word("[removed]"),
                Str(<<"[deleted]", " ", "[removed]">>), Str(<<" ", "hi", " ">>)}
CreatedChoices == {None, PyInt(MinCreatedUtc - 1), PyInt(MinCreatedUtc),
                   PyInt(MaxCreatedUtc), PyInt(MaxCreatedUtc + 1)}
ScoreChoices == {None} \cup {PyInt(n) : n \in 0..MaxScore}

CommentRow(id, body, author, link_id, created_utc, score, ups, downs) ==
    Tuple(<<id, body, author, link_id, Word("t1"), created_utc, PyInt(7),
            score, ups, downs, PyInt(0), PyInt(0), PyInt(0), None>>)

\* A few rows of every table, with a row for every branch of its cleaner.
SampleRows(name) ==
    CASE name = "Users" ->
           {Tuple(<<a, f, None>>) :
               a \in {None, Blank, Word("bob")},
               f \in {None, Blank, Word("!"), Str(<<"!", "mod">>)}}
      [] name = "Subreddit" ->
           {Tuple(<<i, Word("pics")>>) : i \in IdChoices}
      [] name = "Post" ->
           {Tuple(<<Word("t3"), i, Word("bob"), c, PyInt(0), PyInt(0), e>>) :
               i \in {Blank, Word("t5")},
               c \in {None, PyInt(MinCreatedUtc - 1), PyInt(MaxCreatedUtc)},
               e \in {None, PyInt(0 - 1), PyInt(5)}}
      [] name = "Comment" ->
           {CommentRow(Word("c1"), body, author, link_id, created_utc,
                       PyInt(1), ups, PyInt(0)) :
               body \in {None, Word("[removed]"), Word("hi")},
               author \in {Empty, Word("bob")},
               link_id \in {None, Word("t3")},
               created_utc \in {PyInt(MaxCreatedUtc + 1), PyInt(MaxCreatedUtc)},
               ups \in {None, PyInt(0), PyInt(1)}}
      [] name = "Moderation" ->
           {Tuple(<<PyInt(1), Word("comment"), t, i, None, Word("moderator"),
                    PyInt(7)>>) :
               t \in {None, Word("c1")}, i \in {Empty, Word("t5")}}

NoCall == [cleaner |-> "", row |-> None, ret |-> None, before |-> Counter]

\* The FD tool is not running.
FDIdle ==
    /\ table_name = ""
    /\ columns_info = <<>>
    /\ df = DataFrame(<<>>, <<>>)
    /\ pc = "idle"
    /\ det_arg = <<>>
    /\ dep_arg = <<>>
    /\ result = NoResult
    /\ report = None
    /\ message = ""
    /\ raised = ""
    /\ grouped = <<>>
    /\ visited = {}
    /\ tally = NoGroups
    /\ pending = {}
    /\ outcome = <<>>
    /\ rendered = <<>>

\* No run of main: only the row cleaners are called, with one Counter.
InitCleaners ==
    /\ FDIdle
    /\ MongoIdle
    /\ cleaner_args = <<>>
    /\ source = <<>>
    /\ selected = <<>>
    /\ cleaned = <<>>
    /\ txn = <<>>
    /\ cleaner_pc = "idle"
    /\ cfg_index = 0
    /\ offset = 0
    /\ stats = Counter
    /\ call = NoCall
    /\ runs = 0
    /\ cleaner_raised = ""

\* One call cleaner(row, stats).
CleanRow(name, row) ==
    /\ cleaner_pc = "idle"
    /\ LET r == cleaner(name, row, stats)
       IN  /\ stats' = r.stats
           /\ call' = [cleaner |-> name, row |-> row, ret |-> r.ret,
                       before |-> stats]
    /\ UNCHANGED <<fd_vars, mongo_vars>>
    /\ UNCHANGED <<cleaner_args, source, selected, cleaned, txn, cleaner_pc,
                   cfg_index, offset, runs, cleaner_raised>>

\* At most MaxCalls rows are cleaned.
NextCleaners ==
    /\ stats["seen"] < MaxCalls
    /\ \E i \in 1..Len(TableNames) :
           \E row \in SampleRows(TableNames[i]) :
               CleanRow(TableNames[i], row)

SpecCleaners == InitCleaners /\ [][NextCleaners]_vars

\* clean_comment_row called once, with any comment row.
NextCleanComment ==
    /\ stats["seen"] = 0
    /\ \E body \in BodyChoices, author \in AuthorChoices, link_id \in IdChoices,
          created_utc \in CreatedChoices,
          score \in ScoreChoices, ups \in ScoreChoices, downs \in ScoreChoices :
           CleanRow("Comment",
                    CommentRow(Word("c1"), body, author, link_id, created_utc,
                               score, ups, downs))

SpecCleanComment == InitCleaners /\ [][NextCleanComment]_vars

(***************************************************************************)
(* data_cleaner.py: main.  The source tables keep their rows; a *_cleaned  *)
(* table is None while it does not exist.  The rows inserted since the     *)
(* last commit are in txn: a commit appends them to the table, a rollback  *)
(* discards them.                                                          *)
(***************************************************************************)
Table(rows) == [rows |-> rows]

Min(a, b) == IF a <= b THEN a ELSE b

\* Mutation of create_clean_tables: an existing table is kept.
create_clean_tables_if_not_exists(tables) ==
    [t \in DOMAIN tables |-> IF tables[t] = None THEN Table(<<>>) ELSE tables[t]]

\* DROP TABLE IF EXISTS and CREATE TABLE for each *_cleaned table
create_clean_tables(tables) == [t \in DOMAIN tables |-> Table(<<>>)]

\* The results SELECT ... LIMIT sample may give: any sample rows of the table,
\* and all its rows without a LIMIT.
RECURSIVE Subsequences(_)
Subsequences(rows) ==
    IF rows = <<>> THEN {<<>>}
    ELSE LET rest == Subsequences(Tail(rows))
         IN  rest \cup {<<Head(rows)>> \o r : r \in rest}

select_results(rows, sample) ==
    IF sample > 0
    THEN {r \in Subsequences(rows) : Len(r) = Min(sample, Len(rows))}
    ELSE {rows}

\* Mutation of execute_batch: the rows are committed with the batch.
execute_batch_autocommit(committed, inserted, cleaned_batch) ==
    [cleaned |-> Table(committed.rows \o inserted \o cleaned_batch), txn |-> <<>>]

\* psycopg2.extras.execute_batch(cur, insert_sql, cleaned_batch)
execute_batch(committed, inserted, cleaned_batch) ==
    [cleaned |-> committed, txn |-> inserted \o cleaned_batch]

\* The loop over the rows of a batch
RECURSIVE clean_batch(_, _, _, _)
clean_batch(name, batch, cleaned_batch, st) ==
    IF batch = <<>> THEN [cleaned_batch |-> cleaned_batch, stats |-> st]
    ELSE LET r == cleaner(name, Head(batch), st)
         IN  clean_batch(name, Tail(batch),
                         IF r.ret # None THEN Append(cleaned_batch, r.ret)
                         ELSE cleaned_batch,
                         inc(r.stats, "processed"))

\* Three rows of each source table, with different keys.
SourceRows(name) ==
    CASE name = "Users" ->
           <<Tuple(<<Word("bob"), None, None>>),
             Tuple(<<Blank, Word("mod"), None>>),
             Tuple(<<Word("amy"), Word("!"), None>>)>>
      [] name = "Subreddit" ->
           <<Tuple(<<Word("t5a"), Word("pics")>>),
             Tuple(<<Empty, Word("pics")>>),
             Tuple(<<Word("t5b"), Word("aww")>>)>>
      [] name = "Post" ->
           <<Tuple(<<Word("t3a"), Word("t5a"), Word("bob"), PyInt(MinCreatedUtc),
                     PyInt(0), PyInt(0), None>>),
             Tuple(<<Word("t3b"), Word("t5a"), Word("bob"),
                     PyInt(MinCreatedUtc - 1), PyInt(0), PyInt(0), None>>),
             Tuple(<<Word("t3c"), Word("t5a"), Word("bob"), PyInt(MaxCreatedUtc),
                     PyInt(0), PyInt(0), PyInt(0 - 1)>>)>>
      [] name = "Comment" ->
           <<CommentRow(Word("c1"), Word("hi"), Word("bob"), Word("t3a"),
                        PyInt(MinCreatedUtc), PyInt(1), PyInt(1), PyInt(0)),
             CommentRow(Word("c2"), Word("[deleted]"), Word("bob"), Word("t3a"),
                        PyInt(MinCreatedUtc), PyInt(1), PyInt(1), PyInt(0)),
             CommentRow(Word("c3"), Word("hi"), Blank, Word("t3a"),
                        PyInt(MinCreatedUtc), PyInt(0), PyInt(1), PyInt(0))>>
      [] name = "Moderation" ->
           <<Tuple(<<PyInt(1), Word("comment"), Word("c1"), Word("t5a"), None,
                     Word("moderator"), PyInt(7)>>),
             Tuple(<<PyInt(2), Word("comment"), None, Word("t5a"), None,
                     Word("moderator"), PyInt(7)>>),
             Tuple(<<PyInt(3), Word("comment"), Word("c3"), Word("t5a"), None,
                     Word("moderator"), PyInt(7)>>)>>

NSourceRows == Len(SourceRows("Users"))

\* The positions in SourceRows of the rows of a table, without repetition.
Shapes ==
    {sh \in UNION {[1..n -> 1..NSourceRows] : n \in 0..MaxSourceRows} :
        \A i, j \in DOMAIN sh : i # j => sh[i] # sh[j]}

\* Table i holds the rows of the shape, shifted by i.
SourceOfShape(sh) ==
    [i \in 1..Len(TableNames) |->
        [j \in DOMAIN sh |->
            SourceRows(TableNames[i])[((sh[j] + i) % NSourceRows) + 1]]]

SampleChoices == {0, 1}
BatchSizeChoices == {1, 2}

InitCleanerMain ==
    /\ FDIdle
    /\ MongoIdle
    /\ cleaner_args = <<>>
    /\ \E sh \in Shapes : source = SourceOfShape(sh)
    /\ selected = [i \in 1..Len(TableNames) |-> None]
    /\ cleaned = [i \in 1..Len(TableNames) |-> None]
    /\ txn = <<>>
    /\ cleaner_pc = "idle"
    /\ cfg_index = 0
    /\ offset = 0
    /\ stats = Counter
    /\ call = NoCall
    /\ runs = 0
    /\ cleaner_raised = ""

\* parse_args
parse_args ==
    {[sample |-> sample, batch_size |-> batch_size] :
        sample \in SampleChoices, batch_size \in BatchSizeChoices}

\* main up to the loop over TABLE_CONFIG: create_clean_tables and its commit
StartRun ==
    /\ cleaner_pc \in {"idle", "done", "failed"}
    /\ runs < MaxRuns
    /\ cleaner_args' \in parse_args
    /\ cleaned' = create_clean_tables(cleaned)
    /\ selected' = [i \in 1..Len(TableNames) |-> None]
    /\ txn' = <<>>
    /\ cfg_index' = 1
    /\ offset' = 0
    /\ stats' = Counter
    /\ cleaner_raised' = ""
    /\ cleaner_pc' = "table"
    /\ runs' = runs + 1
    /\ UNCHANGED <<source, call>>
    /\ UNCHANGED <<fd_vars, mongo_vars>>

\* An exception in create_clean_tables: conn.rollback() and raise, with no
\* table dropped or created
FailCreate ==
    /\ cleaner_pc \in {"idle", "done", "failed"}
    /\ runs < MaxRuns
    /\ cleaner_args' \in parse_args
    /\ selected' = [i \in 1..Len(TableNames) |-> None]
    /\ txn' = <<>>
    /\ cfg_index' = 0
    /\ offset' = 0
    /\ stats' = Counter
    /\ cleaner_raised' = "Exception"
    /\ cleaner_pc' = "failed"
    /\ runs' = runs + 1
    /\ UNCHANGED <<source, cleaned, call>>
    /\ UNCHANGED <<fd_vars, mongo_vars>>

\* count_rows, stats = Counter() and the SELECT of stream_table
OpenTable ==
    /\ cleaner_pc = "table"
    /\ \E rows \in select_results(source[cfg_index], cleaner_args.sample) :
           selected' = [selected EXCEPT ![cfg_index] = Table(rows)]
    /\ stats' = Counter
    /\ offset' = 0
    /\ cleaner_pc' = "stream"
    /\ UNCHANGED <<cleaner_args, source, cleaned, txn, cfg_index, call, runs,
                   cleaner_raised>>
    /\ UNCHANGED <<fd_vars, mongo_vars>>

\* One batch of fetchmany(batch_size): its rows cleaned, the kept rows inserted
ProcessBatch ==
    /\ cleaner_pc = "stream"
    /\ offset < Len(selected[cfg_index].rows)
    /\ LET rows == selected[cfg_index].rows
           upto == Min(offset + cleaner_args.batch_size, Len(rows))
           batch == SubSeq(rows, offset + 1, upto)
           b == clean_batch(TableNames[cfg_index], batch, <<>>, stats)
           e == execute_batch(cleaned[cfg_index], txn, b.cleaned_batch)
       IN  /\ stats' = b.stats
           /\ txn' = e.txn
           /\ cleaned' = [cleaned EXCEPT ![cfg_index] = e.cleaned]
           /\ offset' = upto
    /\ UNCHANGED <<cleaner_args, source, selected, cleaner_pc, cfg_index, call,
                   runs, cleaner_raised>>
    /\ UNCHANGED <<fd_vars, mongo_vars>>

\* fetchmany gives no rows: conn.commit(), then the next table or the end
CommitTable ==
    /\ cleaner_pc = "stream"
    /\ offset = Len(selected[cfg_index].rows)
    /\ cleaned' = [cleaned EXCEPT ![cfg_index] = Table(@.rows \o txn)]
    /\ txn' = <<>>
    /\ IF cfg_index < Len(TableNames)
       THEN cfg_index' = cfg_index + 1 /\ cleaner_pc' = "table"
       ELSE cfg_index' = cfg_index /\ cleaner_pc' = "done"
    /\ UNCHANGED <<cleaner_args, source, selected, offset, stats, call, runs,
                   cleaner_raised>>
    /\ UNCHANGED <<fd_vars, mongo_vars>>

\* An exception while a table is cleaned: conn.rollback() and raise
FailTable ==
    /\ cleaner_pc \in {"table", "stream"}
    /\ txn' = <<>>
    /\ cleaner_raised' = "Exception"
    /\ cleaner_pc' = "failed"
    /\ UNCHANGED <<cleaner_args, source, selected, cleaned, cfg_index, offset,
                   stats, call, runs>>
    /\ UNCHANGED <<fd_vars, mongo_vars>>

NextCleanerMain ==
    \/ StartRun
    \/ FailCreate
    \/ OpenTable
    \/ ProcessBatch
    \/ CommitTable
    \/ FailTable

SpecCleanerMain == InitCleanerMain /\ [][NextCleanerMain]_vars

(***************************************************************************)
(* phase2_document_model/code/load_to_mongo.py.  A collection with an _id  *)
(* is the set of its documents; the comments collection, whose _id is the  *)
(* ObjectId that the insert makes, is the sequence of its documents in the *)
(* order of their insertion.  Of the columns that are only copied into the *)
(* documents, score stands for all.                                        *)
(***************************************************************************)
\* if x: for a string or None
truthy(x) == x # None /\ x # Str(<<>>)

\* ops[key] = ReplaceOne(...) for a dict of operations, in insertion order
dict_set(ops, doc) ==
    IF \E i \in 1..Len(ops) : ops[i]._id = doc._id
    THEN [i \in 1..Len(ops) |-> IF ops[i]._id = doc._id THEN doc ELSE ops[i]]
    ELSE Append(ops, doc)

\* comments_by_post[post_id].append(doc)
list_append(by_post, post_id, doc) ==
    IF \E i \in 1..Len(by_post) : by_post[i].pid = post_id
    THEN [i \in 1..Len(by_post) |->
            IF by_post[i].pid = post_id
            THEN [by_post[i] EXCEPT !.clist = Append(@, doc)]
            ELSE by_post[i]]
    ELSE Append(by_post, [pid |-> post_id, clist |-> <<doc>>])

\* f"{c_id}_{sub_id}"
format(x) == IF x = None THEN <<"None">> ELSE x.str
moderation_id(c_id, sub_id) == Str(format(c_id) \o <<"_">> \o format(sub_id))

\* coerce_bool(getattr(row, "archived", 0)) and the like are left out with
\* their columns.
NoOps ==
    [users_ops |-> <<>>, subs_ops |-> <<>>, posts_new_ops |-> <<>>,
     comment_inserts |-> <<>>, comments_by_post |-> <<>>,
     moderation_ops |-> <<>>]

\* The body of `for row in df.itertuples(index=False)`
row_step(row, ops) ==
    LET author == row.author
        sub_id == row.subreddit_id
        sub_name == row.subreddit
        post_id == row.link_id
        c_id == row.id
        removal_reason == None
        cdoc == [id |-> c_id, post_id |-> post_id, author |-> author,
                 body |-> row.body, score |-> row.score,
                 distinguished |-> row.distinguished]
        embedded == [id |-> c_id, author |-> author, body |-> row.body,
                     score |-> row.score, distinguished |-> row.distinguished]
    IN  [users_ops |->
            IF truthy(author) /\ author # Str(<<"[deleted]">>)
            THEN dict_set(ops.users_ops,
                          [_id |-> author,
                           author_flair_text |-> row.author_flair_text])
            ELSE ops.users_ops,
         subs_ops |->
            IF truthy(sub_id)
            THEN dict_set(ops.subs_ops, [_id |-> sub_id, name |-> sub_name])
            ELSE ops.subs_ops,
         posts_new_ops |->
            IF /\ truthy(post_id)
               /\ ~\E i \in 1..Len(ops.posts_new_ops) :
                      ops.posts_new_ops[i]._id = post_id
            THEN Append(ops.posts_new_ops,
                        [_id |-> post_id,
                         subreddit |-> [id |-> sub_id, name |-> sub_name],
                         author |-> author,
                         comment_count |-> 0,
                         embedded_count |-> 0,
                         comments |-> <<>>])
            ELSE ops.posts_new_ops,
         comment_inserts |->
            IF truthy(c_id) /\ truthy(post_id)
            THEN Append(ops.comment_inserts, cdoc)
            ELSE ops.comment_inserts,
         comments_by_post |->
            IF truthy(c_id) /\ truthy(post_id)
            THEN list_append(ops.comments_by_post, post_id, embedded)
            ELSE ops.comments_by_post,
         moderation_ops |->
            IF truthy(removal_reason) \/ truthy(row.distinguished)
            THEN dict_set(ops.moderation_ops,
                          [_id |-> moderation_id(c_id, sub_id),
                           target_type |-> "comment",
                           target_id |-> c_id,
                           subreddit_id |-> sub_id,
                           removal_reason |-> removal_reason,
                           distinguished |-> row.distinguished])
            ELSE ops.moderation_ops]

RECURSIVE row_loop(_, _)
row_loop(rows, ops) ==
    IF rows = <<>> THEN ops ELSE row_loop(Tail(rows), row_step(Head(rows), ops))

\* ReplaceOne({"_id": doc._id}, doc, upsert=True)
replace_one(collection, doc) ==
    {d \in collection : d._id # doc._id} \cup {doc}

RECURSIVE bulk_replace(_, _)
bulk_replace(collection, ops) ==
    IF ops = <<>> THEN collection
    ELSE bulk_replace(replace_one(collection, Head(ops)), Tail(ops))

\* Mutation of insert_one: no unique index on id.
insert_one_without_index(collection, doc) == Append(collection, doc)

\* InsertOne(doc) under the unique index on id: a duplicate is an error of
\* the bulk write, which goes on with the other inserts
insert_one(collection, doc) ==
    IF \E i \in 1..Len(collection) : collection[i].id = doc.id
    THEN collection
    ELSE Append(collection, doc)

\* db.comments.bulk_write(comment_inserts, ordered=False), BulkWriteError
\* ignored
RECURSIVE bulk_insert(_, _)
bulk_insert(collection, docs) ==
    IF docs = <<>> THEN collection
    ELSE bulk_insert(insert_one(collection, Head(docs)), Tail(docs))

\* The $push and $inc updates of one post for its comments of the chunk
update_post(posts, pid, clist, embed_cap) ==
    LET to_embed == IF embed_cap > 0
                    THEN SubSeq(clist, 1, Min(embed_cap, Len(clist)))
                    ELSE <<>>
    IN  {IF d._id = pid
         THEN [d EXCEPT !.comments = @ \o to_embed,
                        !.embedded_count = @ + Len(to_embed),
                        !.comment_count = @ + Len(clist)]
         ELSE d : d \in posts}

RECURSIVE bulk_update(_, _, _)
bulk_update(posts, by_post, embed_cap) ==
    IF by_post = <<>> THEN posts
    ELSE bulk_update(update_post(posts, Head(by_post).pid, Head(by_post).clist,
                                 embed_cap),
                     Tail(by_post), embed_cap)

load_chunk_to_mongo(chunk, d, embed_cap) ==
    LET ops == row_loop(chunk, NoOps)
    IN  [users |-> bulk_replace(d.users, ops.users_ops),
         subreddits |-> bulk_replace(d.subreddits, ops.subs_ops),
         posts |-> bulk_update(bulk_replace(d.posts, ops.posts_new_ops),
                               ops.comments_by_post, embed_cap),
         comments |-> bulk_insert(d.comments, ops.comment_inserts),
         moderation |-> bulk_replace(d.moderation, ops.moderation_ops)]

\* reset_db, and the collections of a new database
NoCollections ==
    [users |-> {}, subreddits |-> {}, posts |-> {}, comments |-> <<>>,
     moderation |-> {}]

May2015Row(author, flair, sub_id, link_id, id, distinguished) ==
    [author |-> author, author_flair_text |-> flair, subreddit_id |-> sub_id,
     subreddit |-> IF sub_id = None THEN None ELSE Word("pics"),
     link_id |-> link_id, id |-> id, body |-> Word("hi"), score |-> PyInt(1),
     distinguished |-> distinguished]

\* Rows of May2015, each with its own id or none: two comments of a post, one
\* of them by a moderator, a comment of a deleted author on another post, a
\* row without id, a row without link_id, another comment on the second post.
DataRows ==
    {May2015Row(Word("bob"), None, Word("t5a"), Word("p1"), Word("c1"), None),
     May2015Row(Word("bob"), Word("x"), Word("t5a"), Word("p1"), Word("c2"),
                Word("moderator")),
     May2015Row(Word("[deleted]"), None, Word("t5b"), Word("p2"), Word("c3"),
                None),
     May2015Row(Word("amy"), None, Word("t5a"), Word("p1"), None, None),
     May2015Row(None, None, None, None, Word("c5"), Word("admin")),
     May2015Row(Word("amy"), None, Word("t5b"), Word("p2"), Word("c6"), None)}

ChunksizeChoices == {1, 2}
EmbedCapChoices == {0, 1, 2}

InitMongo ==
    /\ FDIdle
    /\ CleanerIdle
    /\ \E chunksize \in ChunksizeChoices, embed_cap \in EmbedCapChoices :
           mongo_args = [chunksize |-> chunksize, embed_cap |-> embed_cap,
                         reset |-> FALSE]
    /\ \E n \in 0..MaxDataRows :
           \E rows \in [1..n -> DataRows] :
               /\ \A i, j \in 1..n : i # j => rows[i] # rows[j]
               /\ data = rows
    /\ db = NoCollections
    /\ loader_pc = "idle"
    /\ position = 0
    /\ loads = 0
    /\ db_first = NoCollections

\* main up to the loop over the chunks: reset_db with --reset, ensure_indexes
StartLoad ==
    /\ loader_pc \in {"idle", "done"}
    /\ loads < MaxLoads
    /\ \E reset \in BOOLEAN :
           /\ mongo_args' = [mongo_args EXCEPT !.reset = reset]
           /\ db' = IF reset THEN NoCollections ELSE db
    /\ position' = 0
    /\ loader_pc' = "loading"
    /\ UNCHANGED <<data, loads, db_first>>
    /\ UNCHANGED <<fd_vars, cleaner_vars>>

\* One chunk of stream_sqlite given to load_chunk_to_mongo
LoadChunk ==
    /\ loader_pc = "loading"
    /\ position < Len(data)
    /\ LET upto == Min(position + mongo_args.chunksize, Len(data))
       IN  /\ db' = load_chunk_to_mongo(SubSeq(data, position + 1, upto), db,
                                        mongo_args.embed_cap)
           /\ position' = upto
    /\ UNCHANGED <<mongo_args, data, loader_pc, loads, db_first>>
    /\ UNCHANGED <<fd_vars, cleaner_vars>>

\* stream_sqlite has no more chunks: the load ends
EndLoad ==
    /\ loader_pc = "loading"
    /\ position = Len(data)
    /\ loader_pc' = "done"
    /\ loads' = loads + 1
    /\ db_first' = IF loads = 0 THEN db ELSE db_first
    /\ UNCHANGED <<mongo_args, data, db, position>>
    /\ UNCHANGED <<fd_vars, cleaner_vars>>

NextMongo ==
    \/ StartLoad
    \/ LoadChunk
    \/ EndLoad

SpecMongo == InitMongo /\ [][NextMongo]_vars

(***************************************************************************)
(* What a functional dependency means, stated on the table itself and      *)
(* independently of the checker's loops.                                   *)
(***************************************************************************)
Checked == pc = "checked"
Returned == pc = "checked" /\ result.exc = ""
Analyzed == pc = "analyzed"

\* The rows in which every determinant column is non-null.
KeyedRows(d, det) ==
    {i \in 1..Len(d.rows) : \A c \in Range(det) : d.rows[i][c] # NULL}

\* The distinct determinant values: one partition each.
Partitions(d, det) == {KeyOf(d.rows[i], det) : i \in KeyedRows(d, det)}

\* The distinct non-null values of a column within a partition.
ValuesIn(d, det, key, col) ==
    {d.rows[i][col] : i \in {k \in KeyedRows(d, det) :
                                 KeyOf(d.rows[k], det) = key}} \ {NULL}

\* The (partition, dependent column) pair violates the dependency.
Violates(d, det, key, col) ==
    In(col, d.columns) /\ Cardinality(ValuesIn(d, det, key, col)) > 1

ViolatingPairs(d, det, dep) ==
    {p \in Partitions(d, det) \X Range(dep) : Violates(d, det, p[1], p[2])}

ViolatingPartitions(d, det, dep) ==
    {key \in Partitions(d, det) : \E c \in Range(dep) : Violates(d, det, key, c)}

\* All determinant columns are columns of the table.
DetInTable == \A c \in Range(det_arg) : In(c, df.columns)

NoEvidence == FDResult(FALSE, 0, 0, <<>>)

\* C1: with several dependent columns, violation_count is the number of
\* (partition, dependent column) pairs that have more than one distinct
\* non-null value; a violating column does not hide later columns.
C1_EveryDependentCounted ==
    (Returned /\ DetInTable /\ det_arg # <<>> /\ Len(dep_arg) > 1
        /\ KeyedRows(df, det_arg) # {})
    => result.ret.violations = Cardinality(ViolatingPairs(df, det_arg, dep_arg))

\* The table analysis returned a result (not None).
Reported == pc = "analyzed" /\ report # None

\* The key columns and the other columns as analyze_table_fds takes them.
PK == pk_columns_of(columns_info)
OtherCols == SelectSeq(df.columns, LAMBDA col : ~In(col, PK))
FDs == report.functional_dependencies

\* Two rows share the value of the primary-key columns and differ in another
\* column.
PKConflict == ViolatingPartitions(df, PK, OtherCols) # {}

\* C2: for a table with a declared primary key and a non-key column, the
\* result holds a Primary Key record with the actual outcome of the check;
\* when two rows share a primary-key value and differ in another column it
\* is a record with holds = false.
C2_PrimaryKeyOutcomeRecorded ==
    (Reported /\ PK # <<>> /\ OtherCols # <<>> /\ KeyedRows(df, PK) # {})
    => /\ \E i \in 1..Len(FDs) :
            /\ FDs[i].type = "Primary Key"
            /\ FDs[i].holds =
                   check_functional_dependency(df, PK, OtherCols).ret.holds
       /\ PKConflict =>
            \E i \in 1..Len(FDs) :
                FDs[i].type = "Primary Key" /\ FDs[i].holds = FALSE

\* C3 as stated: for every table and non-empty determinant, holds = true
\* exactly when violation_count = 0.
C3_HoldsIffNoViolation ==
    (Returned /\ det_arg # <<>>)
    => (result.ret.holds <=> result.ret.violations = 0)

\* C3 amended: when some row has all determinant columns non-null, holds is
\* true exactly when violation_count = 0 (so holds = false implies
\* violation_count > 0); with no such row the result is holds = false with
\* violation_count = 0.
C3_HoldsIffNoViolationWithEvidence ==
    (Returned /\ det_arg # <<>>)
    => IF DetInTable /\ KeyedRows(df, det_arg) # {}
       THEN result.ret.holds <=> result.ret.violations = 0
       ELSE ~result.ret.holds /\ result.ret.violations = 0

C3_Witness ==
    /\ Returned /\ det_arg # <<>>
    /\ ~result.ret.holds /\ result.ret.violations > 0

\* Every row has a null in some determinant column.
AllKeysNull ==
    /\ DetInTable
    /\ len(df) > 0
    /\ KeyedRows(df, det_arg) = {}

\* C4: on a table with zero rows the check returns (false, 0, 0, []) for any
\* determinant and dependent columns, and so it does when every row has a
\* null in some determinant column.
C4_NoRowsNoEvidence ==
    (Checked /\ (len(df) = 0 \/ AllKeysNull))
    => result = Return(NoEvidence)

C4_Witness ==
    /\ Checked /\ AllKeysNull /\ len(df) > 1 /\ Len(det_arg) > 1
    /\ result = Return(NoEvidence)

\* C5: on a non-empty table, a determinant column that is no column of the
\* table makes the check return (false, 0, 0, []) rather than fail.
C5_MissingDeterminantReturns ==
    (Checked /\ len(df) > 0 /\ ~DetInTable)
    => result = Return(NoEvidence)

\* The domain dependencies that apply to the table.
ApplicableDomainFDs == get_domain_based_fds(df.columns)

\* C6: the analysis of a table with zero rows completes with a result in
\* which every dependency checked (each applicable domain dependency
\* included) has holds = false, violation_count = 0, group_count = 0.
C6_EmptyTableReported ==
    (Analyzed /\ len(df) = 0 /\ message # "[ERROR] Error reading table")
    => /\ report # None
       /\ \A i \in 1..Len(FDs) : ~FDs[i].holds /\ FDs[i].violations = 0
       /\ \A k \in 1..Len(ApplicableDomainFDs) :
            \E i \in 1..Len(FDs) :
                /\ FDs[i].type = "Domain-Based"
                /\ FDs[i].determinant = ApplicableDomainFDs[k].determinant
                /\ FDs[i].dependent = ApplicableDomainFDs[k].dependent
                /\ FDs[i].total_groups = 0

\* The table without the rows that have a null in a determinant column.
RowsWithKey(d, det) ==
    DataFrame(d.columns,
              SelectSeq(d.rows, LAMBDA r : \A c \in Range(det) : r[c] # NULL))

\* C7: rows with a null in any determinant column take no part: the result
\* is the result on the table without them, and a dependency that the
\* remaining rows satisfy holds whatever the removed rows carry.
C7_NullDeterminantRowsExcluded ==
    (Checked /\ DetInTable)
    => /\ result = check_functional_dependency(RowsWithKey(df, det_arg),
                                               det_arg, dep_arg)
       /\ (/\ det_arg # <<>>
           /\ KeyedRows(df, det_arg) # {}
           /\ ViolatingPartitions(df, det_arg, dep_arg) = {})
          => (result.exc = "" /\ result.ret.holds)

\* A row with a null determinant carries a dependent value that differs from
\* the one of a remaining row, and the dependency holds.
C7_Witness ==
    /\ Returned /\ DetInTable /\ det_arg # <<>>
    /\ result.ret.holds
    /\ \E i \in 1..len(df), j \in KeyedRows(df, det_arg), c \in Range(dep_arg) :
        /\ i \notin KeyedRows(df, det_arg)
        /\ In(c, df.columns)
        /\ df.rows[i][c] # NULL /\ df.rows[j][c] # NULL
        /\ df.rows[i][c] # df.rows[j][c]

\* C8: group_count is the number of distinct tuples of determinant values
\* among the rows whose determinant columns are all non-null.
C8_GroupCountIsPartitions ==
    Returned => result.ret.total_groups = Cardinality(Partitions(df, det_arg))

\* Three partitions out of more than three rows.
C8_Witness ==
    /\ Returned /\ det_arg = <<"id">>
    /\ result.ret.total_groups = 3
    /\ len(df) > 3

\* The partition that a violation example names.
ExampleKey(det, ex) ==
    IF Len(det) = 1 THEN <<ex.determinant_value>>
    ELSE [i \in 1..Len(det) |-> ex.determinant_value[i][2]]

NoDuplicates(s) == \A i, j \in 1..Len(s) : s[i] = s[j] => i = j

\* C9: at most 3 violation examples are returned; they are the first
\* violations in processing order (ascending determinant value, and within
\* a partition the first violating dependent column); each lists at most 3
\* distinct observed values of that column.
C9_FirstThreeExamples ==
    (Returned /\ det_arg # <<>>)
    => LET ex == result.ret.violation_examples
           V  == ViolatingPartitions(df, det_arg, dep_arg)
       IN  /\ Len(ex) <= 3
           /\ Len(ex) = Min(3, Cardinality(V))
           /\ \A i \in 1..Len(ex) :
                LET key  == ExampleKey(det_arg, ex[i])
                    col  == ex[i].dependent_column
                    seen == ValuesIn(df, det_arg, key, col)
                IN  /\ key \in V
                    /\ Cardinality({k \in V : TupleLess(k, key)}) = i - 1
                    /\ \E j \in 1..Len(dep_arg) :
                        /\ dep_arg[j] = col
                        /\ Violates(df, det_arg, key, col)
                        /\ \A h \in 1..(j - 1) :
                               ~Violates(df, det_arg, key, dep_arg[h])
                    /\ Len(ex[i].dependent_values) = Min(3, Cardinality(seen))
                    /\ NoDuplicates(ex[i].dependent_values)
                    /\ Range(ex[i].dependent_values) \subseteq seen

\* More than 3 partitions violate, and one of the examples comes from a
\* partition with more than 3 distinct dependent values.
C9_Witness ==
    /\ Returned /\ det_arg # <<>>
    /\ result.ret.violations > 3
    /\ Len(result.ret.violation_examples) = 3
    /\ \E i \in 1..3 :
        LET ex == result.ret.violation_examples[i]
        IN  Cardinality(ValuesIn(df, det_arg, ExampleKey(det_arg, ex),
                                 ex.dependent_column)) > 3

\* C10: a result with holds = true has no violation examples, and a
\* dependency record of the table result that holds carries none.
C10_HoldingHasNoExamples ==
    /\ (Returned /\ result.ret.holds) => result.ret.violation_examples = <<>>
    /\ Reported =>
        \A i \in 1..Len(FDs) :
            FDs[i].holds => "violation_examples" \notin DOMAIN FDs[i]

\* A table result with a holding domain dependency over several partitions
\* beside a failing one that carries its examples.
C10_Witness ==
    /\ Reported
    /\ \E i, j \in 1..Len(FDs) :
        /\ FDs[i].type = "Domain-Based" /\ FDs[i].holds
        /\ FDs[i].total_groups > 1
        /\ "violation_examples" \notin DOMAIN FDs[i]
        /\ FDs[j].type = "Domain-Based" /\ ~FDs[j].holds
        /\ FDs[j].violation_examples # <<>>

(***************************************************************************)
(* The table result of analyze_table_fds.                                  *)
(***************************************************************************)
\* The dependency X -> Y is satisfied by the rows that have a determinant
\* value, and there is such a row.
DependencyHolds(d, det, dep) ==
    KeyedRows(d, det) # {} /\ ViolatingPartitions(d, det, dep) = {}

\* The positions of the records of one type, and of one dependency.
RecordsOfType(t) == {i \in 1..Len(FDs) : FDs[i].type = t}

RecordsOf(t, det, dep) ==
    {i \in RecordsOfType(t) :
        FDs[i].determinant = det /\ FDs[i].dependent = dep}

\* All columns of a domain dependency are columns of the table.
Applicable(fd) == \A c \in Range(fd[1] \o fd[2]) : In(c, df.columns)

\* C11: every domain dependency whose columns are all in the table has
\* exactly one Domain-Based record, with its description and the outcome of
\* its check, holding or failing; a domain dependency with a missing column
\* has no record.
C11_DomainDependenciesRecorded ==
    Reported =>
        /\ \A k \in 1..Len(all_fds) :
            LET fd   == all_fds[k]
                recs == RecordsOf("Domain-Based", fd[1], fd[2])
            IN  IF Applicable(fd)
                THEN /\ Cardinality(recs) = 1
                     /\ \A i \in recs :
                          /\ FDs[i].description = fd[3]
                          /\ FDs[i].holds = DependencyHolds(df, fd[1], fd[2])
                ELSE recs = {}
        /\ Cardinality(RecordsOfType("Domain-Based")) =
               Cardinality({k \in 1..Len(all_fds) : Applicable(all_fds[k])})

\* Two of the applicable domain dependencies fail and are kept beside one
\* that holds.
C11_Witness ==
    /\ Reported
    /\ Cardinality({i \in RecordsOfType("Domain-Based") :
                       ~FDs[i].holds /\ FDs[i].violations > 0}) = 2
    /\ \E i \in RecordsOfType("Domain-Based") : FDs[i].holds

\* The columns outside the declared primary key.
DeclaredKey == declared_key(columns_info)
NonKeyColumns == {c \in Range(df.columns) : ~In(c, DeclaredKey)}

\* The column has no null and no value twice.
AllDistinct(c) ==
    /\ len(df) > 0
    /\ \A i \in 1..len(df) : df.rows[i][c] # NULL
    /\ \A i, j \in 1..len(df) : df.rows[i][c] = df.rows[j][c] => i = j

\* C12: a non-primary-key column is a candidate key exactly when its number
\* of distinct non-null values is the row count and positive: no null and
\* no duplicate.  Only such a column is the determinant of a Candidate Key
\* record.
C12_CandidateKeyIffAllDistinct ==
    Reported =>
        \A c \in NonKeyColumns :
            /\ In(c, candidate_keys_of(df, df.columns, PK)) <=> AllDistinct(c)
            /\ (\E i \in RecordsOfType("Candidate Key") :
                    FDs[i].determinant = <<c>>) <=> AllDistinct(c)

\* One non-key column is a candidate key, another is not because of a null
\* beside its distinct values.
C12_Witness ==
    /\ Reported /\ len(df) > 1
    /\ \E c, e \in NonKeyColumns :
        /\ AllDistinct(c)
        /\ \E i \in RecordsOfType("Candidate Key") : FDs[i].determinant = <<c>>
        /\ ~AllDistinct(e)
        /\ \E i \in 1..len(df) : df.rows[i][e] = NULL
        /\ nunique(Series(df, e)) = len(df) - 1
        /\ \A i \in RecordsOfType("Candidate Key") : FDs[i].determinant # <<e>>

\* C13: no Candidate Key record has a column of the declared primary key as
\* its determinant or among its dependent columns.
C13_KeyColumnsNotInCandidateRecords ==
    Reported =>
        \A i \in RecordsOfType("Candidate Key") :
            \A c \in Range(DeclaredKey) :
                ~In(c, FDs[i].determinant) /\ ~In(c, FDs[i].dependent)

\* The dependents that the Candidate Key record of K must list: the other
\* non-primary-key columns D with K -> D, in column order.
ExpectedDependents(K) ==
    SelectSeq(df.columns,
              LAMBDA D : /\ D # K
                         /\ D \in NonKeyColumns
                         /\ DependencyHolds(df, <<K>>, <<D>>))

\* C14: each candidate key K has at most one Candidate Key record; its
\* dependents are exactly the other non-primary-key columns D for which
\* K -> D holds, in column order, and there is no record when no D holds.
C14_OneRecordPerCandidateKey ==
    Reported =>
        \A K \in Range(candidate_keys_of(df, df.columns, PK)) :
            LET recs == {i \in RecordsOfType("Candidate Key") :
                            FDs[i].determinant = <<K>>}
            IN  IF ExpectedDependents(K) = <<>>
                THEN recs = {}
                ELSE /\ Cardinality(recs) = 1
                     /\ \A i \in recs : FDs[i].dependent = ExpectedDependents(K)

\* The place of a record type in the result, and of a name in a list.
TypeRank(t) ==
    IF t = "Primary Key" THEN 1 ELSE IF t = "Candidate Key" THEN 2 ELSE 3

IndexIn(s, x) == CHOOSE i \in 1..Len(s) : s[i] = x

DomainIndex(fd) ==
    CHOOSE k \in 1..Len(all_fds) :
        all_fds[k][1] = fd.determinant /\ all_fds[k][2] = fd.dependent

\* C15: in the dependency list, Primary Key records come before Candidate
\* Key records, which come before Domain-Based records; candidate-key
\* records follow the table's column order and domain records the order of
\* the fixed domain list.
C15_RecordsInOrder ==
    Reported =>
        \A i, j \in 1..Len(FDs) :
            i < j =>
                /\ TypeRank(FDs[i].type) <= TypeRank(FDs[j].type)
                /\ (FDs[i].type = "Candidate Key" /\ FDs[j].type = "Candidate Key")
                   => IndexIn(df.columns, FDs[i].determinant[1])
                          < IndexIn(df.columns, FDs[j].determinant[1])
                /\ (FDs[i].type = "Domain-Based" /\ FDs[j].type = "Domain-Based")
                   => DomainIndex(FDs[i]) < DomainIndex(FDs[j])

\* A result with a Primary Key record, two Candidate Key records and several
\* Domain-Based records.
C15_Witness ==
    /\ Reported
    /\ Cardinality(RecordsOfType("Primary Key")) = 1
    /\ Cardinality(RecordsOfType("Candidate Key")) = 2
    /\ Cardinality(RecordsOfType("Domain-Based")) > 1

(***************************************************************************)
(* Relations between calls of check_functional_dependency.                 *)
(***************************************************************************)
\* C18: removing any one row from the table never increases the
\* violation_count of the same determinant/dependent pair: the call on the
\* table without the row returns at most the count of the call before.
C18_RemovingRowNeverAddsViolation ==
    (pc = "removed" /\ result.exc = "") =>
        LET less == check_functional_dependency(df, det_arg, dep_arg)
        IN  /\ less.exc = ""
            /\ less.ret.violations <= result.ret.violations

\* Of two violating partitions one is left after a row is removed from a
\* table of more than three rows.
C18_Witness ==
    /\ pc = "removed" /\ result.exc = ""
    /\ len(df) > 2
    /\ result.ret.violations = 2
    /\ check_functional_dependency(df, det_arg, dep_arg).ret.violations = 1

\* The rows of a partition that are null in a column.
NullsIn(d, det, key, col) ==
    {i \in KeyedRows(d, det) :
        KeyOf(d.rows[i], det) = key /\ d.rows[i][col] = NULL}

\* C20: nulls of a dependent column are not values: only a partition with
\* two distinct non-null values in some dependent column is counted, so
\* partitions whose dependent columns are all null, or have one non-null
\* value beside nulls, contribute no violation.
C20_NullDependentsIgnored ==
    Returned =>
        /\ result.ret.violations
               <= Cardinality(ViolatingPartitions(df, det_arg, dep_arg))
        /\ (KeyedRows(df, det_arg) # {}
            /\ ViolatingPartitions(df, det_arg, dep_arg) = {})
           => result.ret.holds

\* The dependency holds on a table with a partition whose dependent column
\* has one non-null value beside a null, or only nulls in several rows.
C20_Witness ==
    /\ Returned /\ result.ret.holds
    /\ \E key \in Partitions(df, det_arg) :
        \E c \in Range(dep_arg) :
            /\ In(c, df.columns)
            /\ NullsIn(df, det_arg, key, c) # {}
            /\ \/ Cardinality(ValuesIn(df, det_arg, key, c)) = 1
               \/ Cardinality(NullsIn(df, det_arg, key, c)) > 1

\* The three values of a result that the caller compares.
Triple(r) == <<r.holds, r.violations, r.total_groups>>

\* C17: a call on the same unchanged table returns the same (holds,
\* violation_count, group_count) whatever the order in which its loop takes
\* the partitions: the values at the end of the loop are those of the call
\* that takes them in key order.
C17_PartitionOrderIrrelevant ==
    Returned =>
        Triple(result.ret) =
            Triple(check_functional_dependency(df, det_arg, dep_arg).ret)

\* A loop that met the violating partitions in another order than the key
\* order (its examples are in another order) and counted some partitions as
\* violating, some not.
C17_Witness ==
    /\ Returned /\ visited # {}
    /\ result.ret.violations > 1
    /\ result.ret.violations < result.ret.total_groups
    /\ result.ret.violation_examples #
           check_functional_dependency(df, det_arg, dep_arg)
               .ret.violation_examples

\* C16: when the table cannot be read, analyze_table_fds either returns a
\* complete table result or raises to its caller.
C16_ReadErrorNotSwallowed ==
    (Analyzed /\ message = "[ERROR] Error reading table") =>
        (report # None \/ raised # "")

\* C19: the checks of one table's analysis can be evaluated in any order:
\* each leaves the table as it was and writes only its own outcome, so the
\* table's result is the one analyze_table_fds returns, whatever the order.
C19_AnyEvaluationOrder ==
    /\ pc = "checking" =>
           \A c \in DOMAIN outcome :
               /\ c \in pending => outcome[c] = NoResult
               /\ c \notin pending =>
                      outcome[c] = check_functional_dependency(
                                       df, c.determinant, c.dependent)
    /\ Reported =>
           report = analyze_table_fds(table_name, columns_info, df, TRUE).ret

\* A result put together from at least five checks, with a null among the
\* determinant values and with records of all three types.
C19_Witness ==
    /\ Reported
    /\ Cardinality(DOMAIN outcome) >= 5
    /\ \E i \in 1..len(df) : df.rows[i]["link_id"] = NULL
    /\ RecordsOfType("Primary Key") # {}
    /\ RecordsOfType("Candidate Key") # {}
    /\ \E i \in RecordsOfType("Domain-Based") : ~FDs[i].holds

\* C25: every column that analyze_table_fds classifies as a candidate key
\* determines every other non-primary-key column: each single-column check
\* holds with as many groups as the table has rows, and the Candidate Key
\* record of the column lists all those columns.
C25_CandidateKeyDeterminesAll ==
    Reported =>
        \A K \in Range(candidate_keys_of(df, df.columns, PK)) :
            \A D \in NonKeyColumns \ {K} :
                LET r == check_functional_dependency(df, <<K>>, <<D>>).ret
                IN  /\ r.holds
                    /\ r.total_groups = len(df)
                    /\ \E i \in RecordsOfType("Candidate Key") :
                          /\ FDs[i].determinant = <<K>>
                          /\ In(D, FDs[i].dependent)

\* A table of several rows with a candidate key whose record lists two
\* dependents, one of them with a null and one with a repeated value.
C25_Witness ==
    /\ Reported /\ len(df) > 1
    /\ \E i \in RecordsOfType("Candidate Key") :
        /\ Len(FDs[i].dependent) = 2
        /\ \E D \in Range(FDs[i].dependent) :
              \E k \in 1..len(df) : df.rows[k][D] = NULL
        /\ \E D \in Range(FDs[i].dependent) :
              \A k \in 1..len(df) : df.rows[k][D] = df.rows[1][D]

\* C26: the primary key that analyze_table_fds reports is the complete
\* declared key, and the Primary Key record, when there is one, has the
\* complete key as its determinant and no key column as a dependent.
C26_CompleteDeclaredKey ==
    (Reported /\ DeclaredKey # <<>>) =>
        /\ report.primary_key = DeclaredKey
        /\ \A i \in RecordsOfType("Primary Key") :
              /\ FDs[i].determinant = DeclaredKey
              /\ \A c \in Range(DeclaredKey) : ~In(c, FDs[i].dependent)

\* C28: violation_count is at most group_count, for any number of dependent
\* columns.
C28_ViolationsAtMostGroups ==
    Returned => result.ret.violations <= result.ret.total_groups

\* Every partition violates, one of them in two of the dependent columns.
C28_Witness ==
    /\ Returned /\ Len(dep_arg) > 1
    /\ result.ret.total_groups > 1
    /\ result.ret.violations = result.ret.total_groups
    /\ Cardinality(ViolatingPairs(df, det_arg, dep_arg))
           > Cardinality(ViolatingPartitions(df, det_arg, dep_arg))

\* The report is written for a table that has a result.
Rendered == pc = "reported" /\ report # None

\* The entries of the table's section for one dependency record.
EntriesOf(fd) ==
    {k \in 1..Len(rendered[1].entries) :
        /\ rendered[1].entries[k].type = fd.type
        /\ rendered[1].entries[k].determinant = fd.determinant
        /\ rendered[1].entries[k].dependent = fd.dependent}

\* The examples recorded for a dependency record.
RecordedExamples(fd) ==
    IF "violation_examples" \in DOMAIN fd THEN fd.violation_examples ELSE <<>>

\* C21: the report shows for every dependency of the table whether it
\* holds, and for every failing one its violation count and all its recorded
\* counter-examples, which are at most 3.
C21_FailingShownWithExamples ==
    Rendered =>
        /\ Len(rendered) = 1
        /\ Len(rendered[1].entries) = Len(FDs)
        /\ \A i \in 1..Len(FDs) :
            /\ EntriesOf(FDs[i]) # {}
            /\ \A k \in EntriesOf(FDs[i]) :
                LET e == rendered[1].entries[k]
                IN  /\ e.status = (IF FDs[i].holds THEN "HOLDS" ELSE "FAILS")
                    /\ ~FDs[i].holds =>
                          /\ e.violations[1] = FDs[i].violations
                          /\ Len(RecordedExamples(FDs[i])) <= MaxExamples
                          /\ e.examples = RecordedExamples(FDs[i])

(***************************************************************************)
(* The row cleaners of data_cleaner.py.                                    *)
(***************************************************************************)
\* The value is null or has no character other than whitespace.
NullOrBlank(v) == v = None \/ \A i \in 1..Len(v.str) : v.str[i] = " "

Called(name) == call.cleaner = name

\* The comment row is one that the rules drop.
CommentDropped(t) ==
    \/ NullOrBlank(t[4])
    \/ NullOrBlank(t[2])
    \/ t[2] = Str(<<"[deleted]">>) \/ t[2] = Str(<<"[removed]">>)
    \/ (t[6] # None /\ ~(t[6].int \in MinCreatedUtc..MaxCreatedUtc))

\* The comment row as the rules keep it.
CommentKept(t) ==
    [i \in 1..14 |->
        IF i = 3 /\ t[3] # None /\ NullOrBlank(t[3]) THEN None
        ELSE IF i = 8 /\ t[8] # None /\ t[9] # None /\ t[10] # None
        THEN PyInt(t[9].int - t[10].int)
        ELSE t[i]]

\* C24: clean_comment_row returns None exactly for a row with a null or
\* blank link_id, a null, blank, '[deleted]' or '[removed]' body, or a
\* created_utc outside [1100000000, 1800000000]; any other row is returned
\* unchanged but for a blank author made NULL and score = ups - downs when
\* the three are non-null.
C24_CommentRowRules ==
    Called("Comment") =>
        IF CommentDropped(call.row.tuple)
        THEN call.ret = None
        ELSE call.ret = Tuple(CommentKept(call.row.tuple))

\* A kept row whose blank author became NULL, whose score was corrected and
\* whose body has whitespace around its text.
C24_Witness ==
    /\ Called("Comment") /\ call.ret # None
    /\ call.row.tuple[3] = Blank /\ call.ret.tuple[3] = None
    /\ call.ret.tuple[8] # call.row.tuple[8]
    /\ call.row.tuple[2] = Str(<<" ", "hi", " ">>)
    /\ call.row.tuple[6] = PyInt(MaxCreatedUtc)

\* The counters named dropped_*.
DroppedNames ==
    {"dropped_missing_author", "dropped_missing_subreddit_id",
     "dropped_invalid_created_utc", "dropped_missing_link_id",
     "dropped_missing_body", "dropped_deleted_or_removed",
     "dropped_missing_target_id"}

RECURSIVE SumOver(_, _)
SumOver(st, names) ==
    IF names = {} THEN 0
    ELSE LET n == CHOOSE x \in names : TRUE
         IN  st[n] + SumOver(st, names \ {n})

\* C29: with one stats counter, seen = kept + the sum of the dropped_*
\* counters after every call of a row cleaner, and a call returns None
\* exactly when it incremented one dropped_* counter and a row exactly when
\* it incremented kept.
C29_SeenIsKeptPlusDropped ==
    /\ stats["seen"] = stats["kept"] + SumOver(stats, DroppedNames)
    /\ ~Called("") =>
        LET dropped == SumOver(stats, DroppedNames)
                           - SumOver(call.before, DroppedNames)
            kept == stats["kept"] - call.before["kept"]
        IN  /\ stats["seen"] = call.before["seen"] + 1
            /\ \A n \in DroppedNames : stats[n] - call.before[n] \in {0, 1}
            /\ (call.ret = None) <=> (dropped = 1 /\ kept = 0)
            /\ (call.ret # None) <=> (kept = 1 /\ dropped = 0)

\* After a dropped and a kept row of two different cleaners, the kept row
\* with a fix that is counted too.
C29_Witness ==
    /\ stats["seen"] = 2 /\ stats["kept"] = 1
    /\ call.ret # None /\ call.ret # call.row
    /\ stats["dropped_missing_target_id"] = 1

(***************************************************************************)
(* main of data_cleaner.py.                                                *)
(***************************************************************************)
\* The rows that a cleaner keeps of the given rows, as it returns them.
RECURSIVE KeptOf(_, _)
KeptOf(name, rows) ==
    IF rows = <<>> THEN <<>>
    ELSE LET r == cleaner(name, Head(rows), Counter).ret
         IN  (IF r = None THEN <<>> ELSE <<r>>) \o KeptOf(name, Tail(rows))

\* The *_cleaned table of table i holds what one run makes of its SELECT.
FullyLoaded(i) ==
    /\ selected[i] # None
    /\ cleaned[i] = Table(KeptOf(TableNames[i], selected[i].rows))

\* C22: after every completed run of main, the first or a later one, each
\* *_cleaned table holds exactly the rows that one run produces from the
\* source table: the rows the cleaner keeps, each once, and all of the
\* source table's kept rows when there is no --sample.
C22_RerunLeavesSingleRunRows ==
    cleaner_pc = "done" =>
        \A i \in 1..Len(TableNames) :
            /\ FullyLoaded(i)
            /\ cleaner_args.sample = 0 =>
                   cleaned[i] = Table(KeptOf(TableNames[i], source[i]))

\* A second run has completed and a table with a kept row is loaded.
C22_Witness ==
    /\ cleaner_pc = "done"
    /\ runs = 2
    /\ \E i \in 1..Len(TableNames) : Len(cleaned[i].rows) > 0
    /\ \E i \in 1..Len(TableNames) :
           Len(source[i]) = 2 /\ Len(cleaned[i].rows) = 1

\* C30: nothing of a table is committed before all its batches are inserted;
\* after an exception while table k was cleaned, the k-th *_cleaned table
\* is empty, the earlier ones are fully loaded, no later table was
\* processed, and the exception has left main.
C30_CommitPerTableRollbackOnError ==
    /\ cleaner_pc = "stream" => cleaned[cfg_index] = Table(<<>>)
    /\ (cleaner_pc = "failed" /\ cfg_index > 0) =>
           /\ cleaned[cfg_index] = Table(<<>>)
           /\ txn = <<>>
           /\ \A i \in 1..(cfg_index - 1) : FullyLoaded(i)
           /\ \A i \in (cfg_index + 1)..Len(TableNames) :
                  selected[i] = None /\ cleaned[i] = Table(<<>>)
           /\ cleaner_raised # ""

\* The exception came after a kept row of the third table was inserted, with
\* a kept row committed for an earlier table.
C30_Witness ==
    /\ cleaner_pc = "failed"
    /\ cfg_index = 3
    /\ offset > 0 /\ stats["kept"] > 0
    /\ \E i \in 1..2 : Len(cleaned[i].rows) > 0

(***************************************************************************)
(* load_to_mongo.py.                                                       *)
(***************************************************************************)
\* C23: a second load of the same rows in the same chunks, without --reset,
\* leaves users, subreddits, posts, comments and moderation as the first
\* load left them.
C23_SecondLoadChangesNothing ==
    (loader_pc = "done" /\ loads >= 2 /\ ~mongo_args.reset) => db = db_first

\* A second load without --reset of rows that gave a post with an embedded
\* comment, two comments documents and a moderation document.
C23_Witness ==
    /\ loader_pc = "done" /\ loads = 2 /\ ~mongo_args.reset
    /\ \E p \in db.posts : p.comment_count > 0 /\ Len(p.comments) > 0
    /\ Len(db.comments) >= 2
    /\ db.moderation # {}
    /\ db.users # {}

\* The documents of the comments collection with the post_id.
CommentsOf(pid) == {i \in 1..Len(db.comments) : db.comments[i].post_id = pid}

\* C27: during and after a load that started from empty collections, every
\* post's comment_count is the number of comments documents with its
\* post_id and its embedded_count is the length of its comments list.
C27_CountersMatchCollections ==
    (\/ loader_pc = "loading" /\ loads = 0
     \/ loader_pc = "done" /\ loads = 1) =>
        \A p \in db.posts :
            /\ p.comment_count = Cardinality(CommentsOf(p._id))
            /\ p.embedded_count = Len(p.comments)

====
